---- MODULE Spec2Model ----
(***************************************************************************)
(* NutriGuide / Multi_AI_Dietitian: the A2A message dispatcher             *)
(* (a2a/protocol.py), the eighteen rule-based agents (a2a/agents/*.py) and *)
(* the pipelines of A2ADietitianOrchestrator (a2a/orchestrator.py).        *)
(*                                                                         *)
(* Conventions of the translation                                          *)
(*  - a Python dict is a function with a set of strings as its domain      *)
(*    (a record); {} is EmptyDict; d.get(k, v) is Get(d, k, v); an         *)
(*    optional argument that is None is EmptyDict as well (both are falsy  *)
(*    and `x or {}` maps both to {});                                      *)
(*  - a Python list is a sequence;                                         *)
(*  - a float is an integer number of ten-thousandths (Float), which is    *)
(*    as fine as 32-bit integers allow; division is floor division;        *)
(*  - an f-string is the tuple of its literal text and interpolated values;*)
(*  - uuid4 message ids are fresh naturals; timestamps are left out of     *)
(*    messages, the wall clock that names a flow is the variable now;      *)
(*  - a raised exception is the name of its class in the field exc,        *)
(*    "none" when the call returned.                                       *)
(***************************************************************************)
EXTENDS Integers, Sequences, FiniteSets, TLC

VARIABLES
    agents,                \* A2AOrchestrator.agents: the registered ids, in dict insertion order
    message_queue,         \* Agent.message_queue, per agent id
    conversation_history,  \* Agent.conversation_history, per agent id
    memory,                \* the private attributes of each agent instance
    message_history,       \* A2AOrchestrator.message_history
    next_id,               \* the next fresh message id
    state,                 \* the caller's SystemState object handed to run_flow
    conversation_flows,    \* A2ADietitianOrchestrator.conversation_flows
    llm,                   \* A2ADietitianOrchestrator.llm is set (TRUE) or None (FALSE)
    now,                   \* wall clock, in seconds, as read by create_comprehensive_plan
    calls,                 \* the number of plans and flows callers have asked for
    outcome                \* the last call made on the orchestrator and what it returned or raised

vars == <<agents, message_queue, conversation_history, memory, message_history,
          next_id, state, conversation_flows, llm, now, calls, outcome>>

-----------------------------------------------------------------------------
(* Bounds of the model *)

MaxDispatch == 3

MaxCalls == 2

-----------------------------------------------------------------------------
(* Python dict and list helpers *)

EmptyDict == [k \in {} |-> 0]

Get(d, k, default) == IF k \in DOMAIN d THEN d[k] ELSE default

Update(d, u) == [k \in (DOMAIN d) \cup (DOMAIN u) |-> IF k \in DOMAIN u THEN u[k] ELSE d[k]]

Range(s) == {s[i] : i \in DOMAIN s}

\* the list and the dict a comprehension builds, every entry computed once
List(s) == s \o <<>>

Dict(d) == d @@ EmptyDict

\* sum(s[lo..hi]), halving the range
RECURSIVE SumBetween(_, _, _)
SumBetween(s, lo, hi) ==
    IF lo > hi THEN 0
    ELSE IF lo = hi THEN s[lo]
    ELSE SumBetween(s, lo, (lo + hi) \div 2) + SumBetween(s, (lo + hi) \div 2 + 1, hi)

SumList(s) == SumBetween(s, 1, Len(s))

\* sum(s)
SumSeq(s) == SumList(List(s))

\* the lists ss[lo..hi] joined into one, halving the range
RECURSIVE FlattenBetween(_, _, _)
FlattenBetween(ss, lo, hi) ==
    IF lo > hi THEN <<>>
    ELSE IF lo = hi THEN ss[lo]
    ELSE FlattenBetween(ss, lo, (lo + hi) \div 2)
             \o FlattenBetween(ss, (lo + hi) \div 2 + 1, hi)

FlattenList(ss) == FlattenBetween(ss, 1, Len(ss))

\* the lists of ss joined into one
Flatten(ss) == FlattenList(List(ss))

Max2(a, b) == IF a >= b THEN a ELSE b

\* the float n, for an integer n
Float(n) == n * 10000

-----------------------------------------------------------------------------
(* protocol.py: MessageType, Priority *)

MessageType ==
    <<"request", "response", "notification", "error",
      "preference_update", "goal_analysis", "food_suggestion", "safety_check",
      "adaptation_request", "motivation_message", "cultural_adaptation",
      "budget_check", "timing_suggestion", "sustainability_check",
      "medical_alert", "feedback_processing", "emergency_alert",
      "meal_analysis", "daily_nutrition_analysis", "progress_analysis",
      "cost_analysis">>

PriorityNormal == "normal"

\* A2AMessage(...): message_id is a fresh uuid, timestamp and metadata are left out
A2AMessage(id, sender, recipient, message_type, content) ==
    [message_id   |-> id,
     message_type |-> message_type,
     priority     |-> PriorityNormal,
     sender       |-> sender,
     recipient    |-> recipient,
     content      |-> content]

\* A2AMessage.to_dict(): the enum members become their values, which they already are here
to_dict(m) ==
    [message_id   |-> m.message_id,
     message_type |-> m.message_type,
     priority     |-> m.priority,
     sender       |-> m.sender,
     recipient    |-> m.recipient,
     content      |-> m.content,
     metadata     |-> EmptyDict]

\* SystemState(): every field defaults to empty
SystemState(profile) ==
    [profile          |-> profile,
     goals            |-> EmptyDict,
     plan             |-> EmptyDict,
     analysis_results |-> EmptyDict,
     safety_flags     |-> <<>>,
     events           |-> <<>>]

-----------------------------------------------------------------------------
(* schemas.py: UserProfile *)

UserProfileFields ==
    {"name", "age", "gender", "height_cm", "weight_kg", "activity_level",
     "goal_type", "dietary_preferences", "allergies", "intolerances",
     "disliked_foods", "avoid_ingredients", "cuisine_preference",
     "budget_level", "cooking_skill", "time_availability", "training_days",
     "medical_conditions", "medications", "country"}

\* UserProfile(**kwargs): the generated __init__ takes exactly the declared fields
UserProfileInitRaises(kwargs) == DOMAIN kwargs # UserProfileFields

\* the TypeError of that __init__: an unexpected keyword is reported before the
\* missing arguments are
UserProfileInitError(kwargs) ==
    IF DOMAIN kwargs \subseteq UserProfileFields
    THEN <<"UserProfile.__init__() missing required positional arguments",
           UserProfileFields \ DOMAIN kwargs>>
    ELSE <<"UserProfile.__init__() got an unexpected keyword argument",
           DOMAIN kwargs \ UserProfileFields>>

\* getattr on a UserProfile instance: AttributeError for a name that is no field
HasAttr(user_profile, name) == name \in DOMAIN user_profile

-----------------------------------------------------------------------------
(* Python str. A string is the sequence of its characters: Len, \o and      *)
(* SubSeq apply to it, and a character is a string of length one.           *)

UpperCase == "ABCDEFGHIJKLMNOPQRSTUVWXYZ"

LowerCase == "abcdefghijklmnopqrstuvwxyz"

\* the i-th character of s
Char(s, i) == SubSeq(s, i, i)

\* the lower-case letter of every upper-case letter
LowerTable ==
    Dict([c \in {Char(UpperCase, i) : i \in 1..Len(UpperCase)} |->
             Char(LowerCase, CHOOSE i \in 1..Len(UpperCase) : Char(UpperCase, i) = c)])

LowerChar(c) == IF c \in DOMAIN LowerTable THEN LowerTable[c] ELSE c

\* str.lower(), halving the string
RECURSIVE Lower(_)
Lower(s) ==
    IF Len(s) = 0 THEN ""
    ELSE IF Len(s) = 1 THEN LowerChar(s)
    ELSE Lower(SubSeq(s, 1, Len(s) \div 2)) \o Lower(SubSeq(s, Len(s) \div 2 + 1, Len(s)))

\* needle in hay, both str
Contains(needle, hay) ==
    \E i \in 0..(Len(hay) - Len(needle)) : SubSeq(hay, i + 1, i + Len(needle)) = needle

\* any(w in s for w in words)
ContainsAny(words, s) == \E i \in DOMAIN words : Contains(words[i], s)

\* str.replace(sub, "")
RECURSIVE RemoveAll(_, _)
RemoveAll(s, sub) ==
    IF Len(sub) = 0 \/ Len(s) < Len(sub) THEN s
    ELSE IF SubSeq(s, 1, Len(sub)) = sub
    THEN RemoveAll(SubSeq(s, Len(sub) + 1, Len(s)), sub)
    ELSE Char(s, 1) \o RemoveAll(SubSeq(s, 2, Len(s)), sub)

\* str.strip(), of blanks
RECURSIVE Strip(_)
Strip(s) ==
    IF Len(s) > 0 /\ Char(s, 1) = " " THEN Strip(SubSeq(s, 2, Len(s)))
    ELSE IF Len(s) > 0 /\ Char(s, Len(s)) = " " THEN Strip(SubSeq(s, 1, Len(s) - 1))
    ELSE s

Digits == "0123456789"

IsDigits(s) == \A i \in 1..Len(s) : Contains(Char(s, i), Digits)

\* the number a run of decimal digits writes
RECURSIVE DigitsValue(_)
DigitsValue(s) ==
    IF Len(s) = 0 THEN 0
    ELSE 10 * DigitsValue(SubSeq(s, 1, Len(s) - 1))
         + (CHOOSE d \in 0..9 : Char(Digits, d + 1) = Char(s, Len(s)))

\* the place of the first point of s
PointAt(s) == CHOOSE i \in 1..Len(s) : Char(s, i) = "." /\ ~Contains(".", SubSeq(s, 1, i - 1))

\* float of an unsigned literal: decimal digits with at most one point, the
\* fraction cut to four digits
ParseUnsigned(body) ==
    IF ~Contains(".", body)
    THEN IF Len(body) > 0 /\ IsDigits(body)
         THEN [exc |-> "none", value |-> Float(DigitsValue(body))]
         ELSE [exc |-> "ValueError", value |-> 0]
    ELSE IF Len(body) > 1 /\ IsDigits(RemoveAll(body, ".")) /\ Len(RemoveAll(body, ".")) = Len(body) - 1
    THEN [exc |-> "none",
          value |-> Float(DigitsValue(SubSeq(body, 1, PointAt(body) - 1)))
                    + DigitsValue(SubSeq(SubSeq(body, PointAt(body) + 1, Len(body)) \o "0000", 1, 4))]
    ELSE [exc |-> "ValueError", value |-> 0]

\* a literal s with its sign
ParseSigned(s) ==
    IF Len(s) > 0 /\ Char(s, 1) = "-"
    THEN [ParseUnsigned(SubSeq(s, 2, Len(s))) EXCEPT !.value = 0 - @]
    ELSE ParseUnsigned(IF Len(s) > 0 /\ Char(s, 1) = "+" THEN SubSeq(s, 2, Len(s)) ELSE s)

\* float(text): surrounding blanks, an optional sign, an unsigned literal;
\* anything else is ValueError
ParseFloat(text) == ParseSigned(Strip(text))

\* the value of a parsed float, or what the except branch assigns
ValueOr(parsed, fallback) == IF parsed.exc = "none" THEN parsed.value ELSE fallback

-----------------------------------------------------------------------------
(* utils/calculations.py *)

calculate_bmr_mifflin_lower_case_only(weight_kg, height_cm, age, gender) ==
    IF gender \in {"male", "m"}
    THEN 10 * Float(weight_kg) + (625 * Float(height_cm)) \div 100 - 5 * Float(age) + Float(5)
    ELSE 10 * Float(weight_kg) + (625 * Float(height_cm)) \div 100 - 5 * Float(age) - Float(161)

calculate_bmr_mifflin(weight_kg, height_cm, age, gender) ==
    IF Lower(gender) \in {"male", "m"}
    THEN 10 * Float(weight_kg) + (625 * Float(height_cm)) \div 100 - 5 * Float(age) + Float(5)
    ELSE 10 * Float(weight_kg) + (625 * Float(height_cm)) \div 100 - 5 * Float(age) - Float(161)

\* activity_multipliers, in thousandths
activity_multipliers ==
    [sedentary |-> 1200] @@ ("lightly active" :> 1375) @@ ("moderately active" :> 1550)
        @@ ("very active" :> 1725) @@ ("extremely active" :> 1900)

calculate_tdee_case_sensitive(bmr, activity_level) ==
    ((bmr \div 20) * (Get(activity_multipliers, activity_level, 1200) \div 25)) \div 2

calculate_tdee(bmr, activity_level) ==
    \* bmr * multiplier, the factors reduced by 20 and by 25 to stay within 32 bits
    ((bmr \div 20) * (Get(activity_multipliers, Lower(activity_level), 1200) \div 25)) \div 2

plan_energy_and_macros_no_deficit(weight_kg, height_cm, age, gender, activity_level, goal_type) ==
    LET bmr == calculate_bmr_mifflin(weight_kg, height_cm, age, gender)
        tdee == calculate_tdee(bmr, activity_level)
        protein_g == Float(weight_kg) * 2
        fats_g == ((tdee * 25) \div 100) \div 9
    IN  [bmr |-> bmr, tdee |-> tdee, target_calories |-> tdee, protein_g |-> protein_g,
         fats_g |-> fats_g, carbs_g |-> (tdee - protein_g * 4 - fats_g * 9) \div 4,
         fiber_g |-> Float(25), sodium_mg |-> Float(2300)]

plan_energy_and_macros(weight_kg, height_cm, age, gender, activity_level, goal_type) ==
    LET bmr == calculate_bmr_mifflin(weight_kg, height_cm, age, gender)
        tdee == calculate_tdee(bmr, activity_level)
        target_calories ==
            IF goal_type = "weight_loss" THEN tdee - Float(500)
            ELSE IF goal_type = "muscle_gain" THEN tdee + Float(300)
            ELSE tdee
        protein_g == Float(weight_kg) * 2
        fats_g == ((target_calories * 25) \div 100) \div 9
        carbs_g == (target_calories - protein_g * 4 - fats_g * 9) \div 4
    IN  [bmr |-> bmr,
         tdee |-> tdee,
         target_calories |-> target_calories,
         protein_g |-> protein_g,
         fats_g |-> fats_g,
         carbs_g |-> carbs_g,
         fiber_g |-> Float(25),
         sodium_mg |-> Float(2300)]

-----------------------------------------------------------------------------
(* utils/nutrient_db.py *)

estimate_dish_nutrition_by_name(dish_name, weight_g) ==
    LET dish_name_lower == Lower(dish_name)
        generic == [kcal |-> 150, protein_g |-> 8, carbs_g |-> 20, fats_g |-> 6,
                    fiber_g |-> 2, sodium_mg |-> 300]
        base_nutrition ==
            IF ContainsAny(<<"chicken", "poultry", "breast">>, dish_name_lower)
            THEN Update(generic, [kcal |-> 180, protein_g |-> 25, carbs_g |-> 5, fats_g |-> 8])
            ELSE IF ContainsAny(<<"fish", "salmon", "tuna">>, dish_name_lower)
            THEN Update(generic, [kcal |-> 200, protein_g |-> 22, carbs_g |-> 0, fats_g |-> 12])
            ELSE IF ContainsAny(<<"pasta", "noodles", "rice">>, dish_name_lower)
            THEN Update(generic, [kcal |-> 130, protein_g |-> 4, carbs_g |-> 25, fats_g |-> 2])
            ELSE IF ContainsAny(<<"salad", "vegetables", "greens">>, dish_name_lower)
            THEN Update(generic, [kcal |-> 80, protein_g |-> 3, carbs_g |-> 15, fats_g |-> 2,
                                  fiber_g |-> 4])
            ELSE generic
    IN  \* value * (weight_g / 100.0)
        Dict([key \in DOMAIN base_nutrition |->
                 (Float(base_nutrition[key]) * weight_g) \div 100])

-----------------------------------------------------------------------------
(* a2a/protocol.py: Agent; what every agent class shares *)

AllAgentIds_shared_sustainability_id ==
    <<"preference_agent", "goal_agent", "food_knowledge_agent", "restriction_safety_agent",
      "adaptation_agent", "motivation_education_agent", "cultural_lifestyle_agent",
      "budget_accessibility_agent", "meal_timing_agent", "sustainability_agent",
      "medical_biomarker_agent", "feedback_learning_agent", "emergency_risk_agent",
      "meal_analysis_agent", "daily_nutrition_analysis_agent", "progress_analysis_agent",
      "cost_analysis_agent", "sustainability_agent">>

\* The ids under which A2ADietitianOrchestrator._register_all_agents registers, in its order
AllAgentIds ==
    <<"preference_agent", "goal_agent", "food_knowledge_agent", "restriction_safety_agent",
      "adaptation_agent", "motivation_education_agent", "cultural_lifestyle_agent",
      "budget_accessibility_agent", "meal_timing_agent", "sustainability_agent",
      "medical_biomarker_agent", "feedback_learning_agent", "emergency_risk_agent",
      "meal_analysis_agent", "daily_nutrition_analysis_agent", "progress_analysis_agent",
      "cost_analysis_agent", "sustainability_analysis_agent">>

\* What process_message hands back: the response's type and content and the
\* agent attributes after the call, or the exception it raised
Reply(mem, message_type, content) ==
    [exc |-> "none", text |-> <<>>, message_type |-> message_type, content |-> content,
     memory |-> mem]

\* text is str(e), in the parts it is formatted from
Raise(mem, exc, text) ==
    [exc |-> exc, text |-> text, message_type |-> "error", content |-> EmptyDict,
     memory |-> mem]

Ack_anonymous(mem, agent_id) == Reply(mem, "response", [status |-> "processed", agent |-> "agent"])

\* The generic acknowledgement every type-checking agent ends process_message with
Ack(mem, agent_id) == Reply(mem, "response", [status |-> "processed", agent |-> agent_id])

\* A content value that is PreferenceAgent.user_profile itself (the dict object of
\* instance n, not a copy) is the reference [user_profile_ref |-> n]
UserProfileRef(n) == [user_profile_ref |-> n]

Deref(mem, d) ==
    IF DOMAIN d = {"user_profile_ref"} THEN mem.user_profiles[d.user_profile_ref] ELSE d

\* The attributes set by each agent's __init__ that its handlers write
FreshAgentMemory ==
    [preference_agent         |-> [instance |-> 0, preference_history |-> <<>>],
     goal_agent               |-> [nutritional_blueprints |-> EmptyDict],
     adaptation_agent         |-> [adaptation_log |-> <<>>],
     feedback_learning_agent  |-> [feedback_history |-> <<>>],
     emergency_risk_agent     |-> [emergency_flags |-> <<>>]]

\* memory before any agent is constructed: no PreferenceAgent.user_profile dict exists
NoMemory == [user_profiles |-> <<>>] @@ FreshAgentMemory

\* agent_class(): a new instance under agent_id; a PreferenceAgent brings a new, empty
\* user_profile dict, the dicts of earlier instances stay as they are
Construct(mem, agent_id) ==
    IF agent_id = "preference_agent"
    THEN [mem EXCEPT !.user_profiles = Append(@, EmptyDict),
                     !.preference_agent = [instance |-> Len(mem.user_profiles) + 1,
                                           preference_history |-> <<>>]]
    ELSE IF agent_id \in DOMAIN FreshAgentMemory
    THEN [mem EXCEPT ![agent_id] = FreshAgentMemory[agent_id]]
    ELSE mem

-----------------------------------------------------------------------------
(* a2a/agents/preference_agent.py *)

PreferenceAgent_update_preferences(mem, message) ==
    LET content == message.content
        inst == mem.preference_agent.instance
        mem1 == [mem EXCEPT !.user_profiles[inst] = Update(@, content),
                            !.preference_agent.preference_history =
                                Append(@, [preferences |-> content])]
    IN  Reply(mem1, "response",
              [status |-> "preferences_updated",
               profile |-> UserProfileRef(inst),
               message |-> "Preferences logged and will be respected in all meal suggestions"])

PreferenceAgent_get_preferences(mem, message) ==
    Reply(mem, "response", [preferences |-> UserProfileRef(mem.preference_agent.instance)])

PreferenceAgent_process_message(mem, message) ==
    IF message.message_type = "preference_update"
    THEN PreferenceAgent_update_preferences(mem, message)
    ELSE IF message.message_type = "request"
    THEN PreferenceAgent_get_preferences(mem, message)
    ELSE Ack(mem, "preference_agent")

-----------------------------------------------------------------------------
(* a2a/agents/goal_agent.py *)

GoalAgent_defaults ==
    [cooking_skill |-> "beginner", time_availability |-> "medium", training_days |-> <<>>,
     medical_conditions |-> <<>>, medications |-> <<>>]

GoalAgent_analyze_goals(mem, message) ==
    LET profile_data == Get(message.content, "profile", EmptyDict)
        complete_profile == Update(GoalAgent_defaults, profile_data)
    IN  IF UserProfileInitRaises(complete_profile)
        THEN Raise(mem, "TypeError", UserProfileInitError(complete_profile))
        ELSE
            LET user_profile == complete_profile
                targets_plan == plan_energy_and_macros(
                    user_profile.weight_kg, user_profile.height_cm, user_profile.age,
                    user_profile.gender, user_profile.activity_level, user_profile.goal_type)
                \* f"blueprint_{name}_{today}": one id per name on a given day
                blueprint_id == <<"blueprint", user_profile.name>>
                mem1 == [mem EXCEPT !.goal_agent.nutritional_blueprints =
                                        Update(@, (user_profile.name :> targets_plan))]
            IN  Reply(mem1, "response",
                      [blueprint_id |-> blueprint_id,
                       targets |-> targets_plan,
                       tdee |-> Get(targets_plan, "tdee", 0),
                       message |-> <<"Nutritional blueprint created for ",
                                     user_profile.goal_type, " goal">>])

GoalAgent_process_message(mem, message) ==
    IF message.message_type = "goal_analysis"
    THEN GoalAgent_analyze_goals(mem, message)
    ELSE Ack(mem, "goal_agent")

-----------------------------------------------------------------------------
(* a2a/agents/food_knowledge_agent.py *)

Ingredient(name, grams, method) == [name |-> name, grams |-> grams, method |-> method]

FoodKnowledgeAgent_calculate_nutrition(foods, grams) ==
    LET n == IF Len(foods) <= Len(grams) THEN Len(foods) ELSE Len(grams)
        each == List([i \in 1..n |-> estimate_dish_nutrition_by_name(foods[i], grams[i])])
    IN  Dict([key \in {"kcal", "protein_g", "carbs_g", "fats_g", "fiber_g", "sodium_mg"} |->
                 SumSeq([i \in 1..n |-> each[i][key]])])

FoodKnowledgeAgent_suggest_breakfast(preferences, targets) ==
    LET vegetarian == "vegetarian" \in Range(Get(preferences, "dietary_preferences", <<>>))
        protein_sources == IF vegetarian THEN <<"tofu", "greek yogurt">>
                           ELSE <<"eggs", "greek yogurt">>
    IN  << [name |-> "Protein Power Bowl",
            ingredients |->
                <<Ingredient(protein_sources[1], 150,
                             IF Contains("eggs", protein_sources[1]) THEN "scrambled" ELSE "cubed"),
                  Ingredient("oats", 50, "cooked"),
                  Ingredient("banana", 120, "sliced"),
                  Ingredient("almonds", 20, "chopped")>>,
            nutrition |-> FoodKnowledgeAgent_calculate_nutrition(
                <<protein_sources[1], "oats", "banana", "almonds">>, <<150, 50, 120, 20>>),
            instructions |-> "Cook oats with water. Scramble eggs or cube tofu. Slice banana and chop almonds. Layer in bowl and enjoy!"],
           [name |-> "Green Smoothie Bowl",
            ingredients |->
                <<Ingredient("spinach", 50, "blended"),
                  Ingredient("banana", 100, "frozen"),
                  Ingredient("greek yogurt", 100, "plain"),
                  Ingredient("chia seeds", 15, "sprinkled")>>,
            nutrition |-> FoodKnowledgeAgent_calculate_nutrition(
                <<"spinach", "banana", "greek yogurt", "chia seeds">>, <<50, 100, 100, 15>>),
            instructions |-> "Blend spinach, frozen banana, and yogurt until smooth. Pour into bowl and top with chia seeds."],
           [name |-> "Avocado Toast Deluxe",
            ingredients |->
                <<Ingredient("whole grain bread", 60, "toasted"),
                  Ingredient("avocado", 80, "mashed"),
                  Ingredient(IF ~vegetarian THEN "eggs" ELSE "tofu", 100,
                             IF ~vegetarian THEN "poached" ELSE "scrambled"),
                  Ingredient("tomato", 50, "sliced")>>,
            nutrition |-> FoodKnowledgeAgent_calculate_nutrition(
                <<"whole grain bread", "avocado", IF ~vegetarian THEN "eggs" ELSE "tofu", "tomato">>,
                <<60, 80, 100, 50>>),
            instructions |-> "Toast bread. Mash avocado with salt and pepper. Poach egg or scramble tofu. Layer avocado, egg/tofu, and tomato slices on toast."] >>

FoodKnowledgeAgent_suggest_lunch(preferences, targets) ==
    LET vegetarian == "vegetarian" \in Range(Get(preferences, "dietary_preferences", <<>>))
        protein == IF vegetarian THEN "tofu" ELSE "chicken"
    IN  << [name |-> "Mediterranean Bowl",
            ingredients |->
                <<Ingredient(protein, 180, "grilled"),
                  Ingredient("quinoa", 150, "cooked"),
                  Ingredient("cucumber", 100, "diced"),
                  Ingredient("tomato", 80, "chopped"),
                  Ingredient("olive oil", 10, "drizzle")>>,
            nutrition |-> FoodKnowledgeAgent_calculate_nutrition(
                <<protein, "quinoa", "cucumber", "tomato", "olive oil">>, <<180, 150, 100, 80, 10>>),
            instructions |-> "Grill protein and cook quinoa. Dice cucumber and chop tomato. Combine in bowl and drizzle with olive oil."],
           [name |-> "Asian Stir-Fry",
            ingredients |->
                <<Ingredient(protein, 160, "stir-fried"),
                  Ingredient("brown rice", 180, "cooked"),
                  Ingredient("bell pepper", 100, "sliced"),
                  Ingredient("broccoli", 120, "steamed"),
                  Ingredient("soy sauce", 15, "drizzle")>>,
            nutrition |-> FoodKnowledgeAgent_calculate_nutrition(
                <<protein, "brown rice", "bell pepper", "broccoli", "soy sauce">>,
                <<160, 180, 100, 120, 15>>),
            instructions |-> "Cook brown rice. Stir-fry protein with bell peppers. Steam broccoli separately. Combine and drizzle with soy sauce."],
           [name |-> "Power Salad",
            ingredients |->
                <<Ingredient(protein, 150, "grilled"),
                  Ingredient("mixed greens", 100, "fresh"),
                  Ingredient("avocado", 60, "sliced"),
                  Ingredient("sweet potato", 120, "roasted"),
                  Ingredient("olive oil", 8, "drizzle")>>,
            nutrition |-> FoodKnowledgeAgent_calculate_nutrition(
                <<protein, "mixed greens", "avocado", "sweet potato", "olive oil">>,
                <<150, 100, 60, 120, 8>>),
            instructions |-> "Grill protein and roast sweet potato. Arrange mixed greens in bowl. Top with sliced avocado, protein, and sweet potato. Drizzle with olive oil."] >>

FoodKnowledgeAgent_suggest_dinner(preferences, targets) ==
    LET vegetarian == "vegetarian" \in Range(Get(preferences, "dietary_preferences", <<>>))
        protein == IF vegetarian THEN "lentils" ELSE "salmon"
    IN  << [name |-> "Herb-Crusted Protein",
            ingredients |->
                <<Ingredient(protein, 160, "baked"),
                  Ingredient("sweet potato", 200, "roasted"),
                  Ingredient("asparagus", 100, "grilled"),
                  Ingredient("olive oil", 8, "drizzle")>>,
            nutrition |-> FoodKnowledgeAgent_calculate_nutrition(
                <<protein, "sweet potato", "asparagus", "olive oil">>, <<160, 200, 100, 8>>),
            instructions |-> "Season protein with herbs and bake. Roast sweet potato and grill asparagus. Drizzle with olive oil and serve."],
           [name |-> "One-Pan Wonder",
            ingredients |->
                <<Ingredient(protein, 150, "pan-seared"),
                  Ingredient("zucchini", 120, "sauteed"),
                  Ingredient("bell pepper", 100, "sauteed"),
                  Ingredient("brown rice", 150, "cooked"),
                  Ingredient("olive oil", 10, "drizzle")>>,
            nutrition |-> FoodKnowledgeAgent_calculate_nutrition(
                <<protein, "zucchini", "bell pepper", "brown rice", "olive oil">>,
                <<150, 120, 100, 150, 10>>),
            instructions |-> "Cook brown rice. Pan-sear protein and saute vegetables in the same pan. Serve over rice with olive oil drizzle."],
           [name |-> "Comfort Bowl",
            ingredients |->
                <<Ingredient(protein, 140, "braised"),
                  Ingredient("quinoa", 180, "cooked"),
                  Ingredient("carrots", 100, "roasted"),
                  Ingredient("spinach", 80, "wilted"),
                  Ingredient("olive oil", 8, "drizzle")>>,
            nutrition |-> FoodKnowledgeAgent_calculate_nutrition(
                <<protein, "quinoa", "carrots", "spinach", "olive oil">>, <<140, 180, 100, 80, 8>>),
            instructions |-> "Braise protein with herbs. Cook quinoa and roast carrots. Wilt spinach. Layer in bowl and drizzle with olive oil."] >>

FoodKnowledgeAgent_suggest_snacks(preferences, targets) ==
    << [name |-> "Energy Bites",
        ingredients |->
            <<Ingredient("almonds", 25, "chopped"),
              Ingredient("dates", 40, "pitted"),
              Ingredient("coconut", 10, "shredded")>>,
        nutrition |-> FoodKnowledgeAgent_calculate_nutrition(
            <<"almonds", "dates", "coconut">>, <<25, 40, 10>>),
        instructions |-> "Chop almonds and pit dates. Blend with coconut until sticky. Roll into small balls and refrigerate."],
       [name |-> "Greek Yogurt Parfait",
        ingredients |->
            <<Ingredient("greek yogurt", 120, "plain"),
              Ingredient("berries", 80, "fresh"),
              Ingredient("granola", 20, "homemade")>>,
        nutrition |-> FoodKnowledgeAgent_calculate_nutrition(
            <<"greek yogurt", "berries", "granola">>, <<120, 80, 20>>),
        instructions |-> "Layer yogurt, berries, and granola in a glass. Repeat layers and enjoy immediately."],
       [name |-> "Veggie Hummus",
        ingredients |->
            <<Ingredient("hummus", 60, "store-bought"),
              Ingredient("carrot sticks", 100, "fresh"),
              Ingredient("cucumber", 80, "sliced")>>,
        nutrition |-> FoodKnowledgeAgent_calculate_nutrition(
            <<"hummus", "carrot", "cucumber">>, <<60, 100, 80>>),
        instructions |-> "Cut carrots into sticks and slice cucumber. Serve with hummus for dipping."],
       [name |-> "Protein Smoothie",
        ingredients |->
            <<Ingredient("protein powder", 25, "vanilla"),
              Ingredient("banana", 100, "frozen"),
              Ingredient("almond milk", 200, "unsweetened"),
              Ingredient("spinach", 30, "fresh")>>,
        nutrition |-> FoodKnowledgeAgent_calculate_nutrition(
            <<"protein powder", "banana", "almond milk", "spinach">>, <<25, 100, 200, 30>>),
        instructions |-> "Blend protein powder, frozen banana, almond milk, and spinach until smooth. Serve immediately."] >>

\* Iteration order of the dicts this program builds: a dict iterates in insertion
\* order, days are inserted as day_1..day_7 and meals as breakfast..snack_2
DayKeys == <<"day_1", "day_2", "day_3", "day_4", "day_5", "day_6", "day_7">>

MealKeys == <<"breakfast", "lunch", "dinner", "snack_1", "snack_2">>

\* list(d.keys()) for a dict keyed by days or by meals
KeysInOrder(d, order) == SelectSeq(order, LAMBDA k : k \in DOMAIN d)

\* One entry of daily_meals[day_key]
FoodKnowledgeAgent_meal(option) ==
    [name |-> option.name,
     calories |-> option.nutrition.kcal,
     protein_g |-> option.nutrition.protein_g,
     carbs_g |-> option.nutrition.carbs_g,
     fats_g |-> option.nutrition.fats_g,
     ingredients |-> option.ingredients,
     instructions |-> Get(option, "instructions", "")]

\* daily_meals[f"day_{day}"], the options being what the four _suggest_ methods return
FoodKnowledgeAgent_day_meals(day, breakfast_options, lunch_options, dinner_options, snack_options) ==
    [breakfast |-> FoodKnowledgeAgent_meal(breakfast_options[(day % Len(breakfast_options)) + 1]),
     lunch     |-> FoodKnowledgeAgent_meal(lunch_options[(day % Len(lunch_options)) + 1]),
     dinner    |-> FoodKnowledgeAgent_meal(dinner_options[(day % Len(dinner_options)) + 1]),
     snack_1   |-> FoodKnowledgeAgent_meal(snack_options[(day % Len(snack_options)) + 1]),
     snack_2   |-> FoodKnowledgeAgent_meal(snack_options[(day % Len(snack_options)) + 1])]

\* the loop `for day in range(1, 8)`: the meals of day 1..7
FoodKnowledgeAgent_week(breakfast_options, lunch_options, dinner_options, snack_options) ==
    List([day \in 1..7 |->
        FoodKnowledgeAgent_day_meals(day, breakfast_options, lunch_options, dinner_options,
                                     snack_options)])

\* the loop that totals one field over every meal of every day
FoodKnowledgeAgent_total(week, field) ==
    SumSeq([day \in 1..7 |->
        SumSeq([i \in 1..Len(MealKeys) |-> Get(week[day][MealKeys[i]], field, 0)])])

\* the response built from the week's meals
FoodKnowledgeAgent_plan(mem, week) ==
    Reply(mem, "response",
          [daily_meals |-> Dict([day_key \in Range(DayKeys) |->
                                    week[CHOOSE day \in 1..7 : DayKeys[day] = day_key]]),
           total_calories |-> FoodKnowledgeAgent_total(week, "calories"),
           total_protein |-> FoodKnowledgeAgent_total(week, "protein_g"),
           total_carbs |-> FoodKnowledgeAgent_total(week, "carbs_g"),
           total_fats |-> FoodKnowledgeAgent_total(week, "fats_g"),
           message |-> "Evidence-based 7-day meal plan tailored to your preferences"])

FoodKnowledgeAgent_suggest_foods(mem, message) ==
    LET preferences == Deref(mem, Get(message.content, "preferences", EmptyDict))
        targets == Get(message.content, "targets", EmptyDict)
    IN  FoodKnowledgeAgent_plan(mem,
            FoodKnowledgeAgent_week(FoodKnowledgeAgent_suggest_breakfast(preferences, targets),
                                    FoodKnowledgeAgent_suggest_lunch(preferences, targets),
                                    FoodKnowledgeAgent_suggest_dinner(preferences, targets),
                                    FoodKnowledgeAgent_suggest_snacks(preferences, targets)))

FoodKnowledgeAgent_process_message(mem, message) ==
    IF message.message_type = "food_suggestion"
    THEN FoodKnowledgeAgent_suggest_foods(mem, message)
    ELSE Ack(mem, "food_knowledge_agent")

-----------------------------------------------------------------------------
(* a2a/agents/restriction_safety_agent.py *)

\* restriction_database["medication_interactions"], in dict order
medication_interactions ==
    << <<"grapefruit", <<"statins", "blood_pressure_meds">> >>,
       <<"vitamin_k_foods", <<"warfarin">> >>,
       <<"tyramine_foods", <<"maois">> >> >>

\* the inner loop over allergies for one food
RestrictionSafetyAgent_food_issues(food, food_lower, allergies) ==
    Flatten([j \in 1..Len(allergies) |->
        IF Contains(Lower(allergies[j]), food_lower)
        THEN << <<"ALLERGY ALERT: ", food, " contains ", allergies[j]>> >>
        ELSE <<>>])

\* the inner loops over medication_interactions for one food, lowered being
\* [m.lower() for m in medications]
RestrictionSafetyAgent_food_warnings(food, food_lower, lowered) ==
    Flatten([t \in 1..Len(medication_interactions) |->
        IF Contains(medication_interactions[t][1], food_lower)
        THEN LET meds == medication_interactions[t][2]
             IN  Flatten([k \in 1..Len(meds) |->
                    IF meds[k] \in lowered
                    THEN << <<"INTERACTION: ", food, " may interact with ", meds[k]>> >>
                    ELSE <<>>])
        ELSE <<>>])

RestrictionSafetyAgent_check_safety(mem, message) ==
    LET foods == Get(message.content, "foods", <<>>)
        user_profile == Get(message.content, "user_profile", EmptyDict)
        allergies == Get(user_profile, "allergies", <<>>)
        issues ==
            Flatten([i \in 1..Len(foods) |->
                RestrictionSafetyAgent_food_issues(foods[i], Lower(foods[i]), allergies)])
        medications == Get(user_profile, "medications", <<>>)
        lowered == {Lower(medications[k]) : k \in DOMAIN medications}
        warnings ==
            Flatten([i \in 1..Len(foods) |->
                RestrictionSafetyAgent_food_warnings(foods[i], Lower(foods[i]), lowered)])
    IN  Reply(mem, "response",
              [safe |-> Len(issues) = 0,
               issues |-> issues,
               warnings |-> warnings,
               message |-> <<"Safety check complete: ", Len(issues), " critical issues, ",
                             Len(warnings), " warnings">>])

RestrictionSafetyAgent_process_message(mem, message) ==
    IF message.message_type = "safety_check"
    THEN RestrictionSafetyAgent_check_safety(mem, message)
    ELSE Ack(mem, "restriction_safety_agent")

-----------------------------------------------------------------------------
(* a2a/agents/adaptation_agent.py *)

AdaptationAgent_adapt_plan(mem, message) ==
    LET feedback == Get(message.content, "feedback", EmptyDict)
        current_plan == Get(message.content, "current_plan", EmptyDict)
        adaptations ==
            (IF Get(feedback, "weight_plateau", FALSE)
             THEN << [type |-> "calorie_adjustment", action |-> "reduce_calories_by_100",
                      reason |-> "Weight plateau detected"] >>
             ELSE <<>>)
            \o
            (IF Get(feedback, "boredom", FALSE)
             THEN << [type |-> "cuisine_rotation", action |-> "introduce_new_cuisine",
                      reason |-> "User reported meal boredom"] >>
             ELSE <<>>)
        mem1 == [mem EXCEPT !.adaptation_agent.adaptation_log =
                                Append(@, [feedback |-> feedback, adaptations |-> adaptations])]
    IN  Reply(mem1, "response",
              [adaptations |-> adaptations,
               message |-> <<"Plan adapted with ", Len(adaptations),
                             " changes based on feedback">>])

AdaptationAgent_process_message(mem, message) ==
    IF message.message_type = "adaptation_request"
    THEN AdaptationAgent_adapt_plan(mem, message)
    ELSE Ack(mem, "adaptation_agent")

-----------------------------------------------------------------------------
(* The environment an agent reads while it handles a message: the index drawn  *)
(* by random.choice and datetime.now() as weekday (0 = Monday) and month       *)

Environment(choice, weekday, month) == [choice |-> choice, weekday |-> weekday, month |-> month]

-----------------------------------------------------------------------------
(* a2a/agents/motivation_education_agent.py *)

motivation_tips ==
    <<"Every healthy choice is a step toward your goals!",
      "Your body thanks you for nourishing it well.",
      "Small changes lead to big results over time.",
      "You're building healthy habits that last a lifetime.">>

education_tips ==
    [protein |-> "Protein helps build and repair muscles, and keeps you feeling full longer.",
     fiber |-> "Fiber supports gut health and helps regulate blood sugar levels.",
     healthy_fats |-> "Healthy fats are essential for brain health and hormone production.",
     vitamins |-> "Vitamins and minerals support your immune system and overall health."]

MotivationEducationAgent_provide_motivation(mem, message, env) ==
    LET context == Get(message.content, "context", "")
        progress == Get(message.content, "progress", EmptyDict)
        motivation ==
            IF Get(progress, "weight_loss", 0) > 0
            THEN <<"Congratulations! You've lost ", progress.weight_loss,
                   "kg. Your dedication is paying off!">>
            ELSE IF Get(progress, "streak", 0) > 0
            THEN <<"Amazing! You've been consistent for ", progress.streak,
                   " days. Keep up the great work!">>
            ELSE <<motivation_tips[env.choice]>>
        education ==
            IF Contains("protein", Lower(context)) THEN education_tips.protein
            ELSE IF Contains("fiber", Lower(context)) THEN education_tips.fiber
            ELSE "Remember: Every meal is an opportunity to nourish your body with the nutrients it needs."
    IN  Reply(mem, "response",
              [motivation |-> motivation,
               education |-> education,
               message |-> "Motivation and education provided to keep you engaged"])

MotivationEducationAgent_process_message(mem, message, env) ==
    IF message.message_type = "motivation_message"
    THEN MotivationEducationAgent_provide_motivation(mem, message, env)
    ELSE Ack(mem, "motivation_education_agent")

-----------------------------------------------------------------------------
(* a2a/agents/cultural_lifestyle_agent.py *)

CulturalLifestyleAgent_adapt_culturally(mem, message) ==
    LET cuisine_pref == Lower(Get(message.content, "cuisine_preference", ""))
        dietary_prefs == Get(message.content, "dietary_preferences", <<>>)
        suggestions == Get(message.content, "suggestions", EmptyDict)
        vegetarian == "vegetarian" \in Range(dietary_prefs)
        adaptations ==
            IF Contains("indian", cuisine_pref)
            THEN [protein_swap |-> IF vegetarian THEN "paneer" ELSE "chicken",
                  grain_swap |-> "quinoa",
                  spice_additions |-> <<"turmeric", "cumin">>]
            ELSE IF Contains("mediterranean", cuisine_pref)
            THEN [protein_swap |-> "fish", fat_swap |-> "olive oil", grain_swap |-> "quinoa"]
            ELSE IF Contains("asian", cuisine_pref)
            THEN [protein_swap |-> IF vegetarian THEN "tofu" ELSE "fish",
                  vegetable_additions |-> <<"bok choy", "ginger">>,
                  cooking_method |-> "stir-fry"]
            ELSE EmptyDict
    IN  Reply(mem, "response",
              [cultural_adaptations |-> adaptations,
               message |-> <<"Meals adapted to ", cuisine_pref, " cultural preferences">>])

CulturalLifestyleAgent_process_message(mem, message) ==
    IF message.message_type = "cultural_adaptation"
    THEN CulturalLifestyleAgent_adapt_culturally(mem, message)
    ELSE Ack(mem, "cultural_lifestyle_agent")

-----------------------------------------------------------------------------
(* a2a/agents/budget_accessibility_agent.py *)

price_database ==
    [expensive |-> <<"quinoa", "salmon", "almonds", "avocado">>,
     affordable |-> <<"brown rice", "chicken", "lentils", "banana">>,
     budget |-> <<"oats", "eggs", "carrots", "apple">>]

BudgetAccessibilityAgent_check_budget(mem, message) ==
    LET budget_level == Get(message.content, "budget_level", "medium")
        foods == Get(message.content, "foods", <<>>)
        \* the substitution the loop body stores for a food, "" when it stores none
        Substitute(food) ==
            LET food_lower == Lower(food)
            IN  IF budget_level = "low" /\ ContainsAny(price_database.expensive, food_lower)
                THEN IF Contains("quinoa", food_lower) THEN "brown rice"
                     ELSE IF Contains("salmon", food_lower) THEN "chicken"
                     ELSE IF Contains("almonds", food_lower) THEN "peanuts"
                     ELSE ""
                ELSE ""
        substituted == {f \in Range(foods) : Substitute(f) # ""}
        substitutions == [f \in substituted |-> Substitute(f)]
        \* the simplified cost estimate: membership of the whole name in a price list
        Cost(food) ==
            LET food_lower == Lower(food)
            IN  IF food_lower \in Range(price_database.expensive) THEN 15
                ELSE IF food_lower \in Range(price_database.affordable) THEN 8
                ELSE 3
        total_cost == SumSeq([i \in 1..Len(foods) |-> Cost(foods[i])])
    IN  Reply(mem, "response",
              [budget_friendly |-> total_cost <= 20,
               substitutions |-> substitutions,
               estimated_cost |-> total_cost,
               message |-> <<"Budget check complete: $", total_cost, " estimated cost">>])

BudgetAccessibilityAgent_process_message(mem, message) ==
    IF message.message_type = "budget_check"
    THEN BudgetAccessibilityAgent_check_budget(mem, message)
    ELSE Ack(mem, "budget_accessibility_agent")

-----------------------------------------------------------------------------
(* a2a/agents/meal_timing_habit_agent.py *)

MealTimingHabitAgent_suggest_timing(mem, message, env) ==
    LET schedule == Get(message.content, "schedule", EmptyDict)
        training_days == Get(schedule, "training_days", <<>>)
        work_schedule == Get(schedule, "work_schedule", EmptyDict)
        today == env.weekday
        is_training_day == today \in Range(training_days)
        timing ==
            IF is_training_day
            THEN [breakfast |-> "7:00 AM - Protein + carbs",
                  pre_workout_snack |-> "5:00 PM - Light carbs",
                  post_workout |-> "7:30 PM - Protein + carbs",
                  dinner |-> "8:00 PM - Balanced meal"]
            ELSE [breakfast |-> "8:00 AM - Balanced meal",
                  lunch |-> "12:30 PM - Protein + vegetables",
                  snack |-> "3:30 PM - Fruit + nuts",
                  dinner |-> "7:00 PM - Light meal"]
    IN  Reply(mem, "response",
              [meal_timing |-> timing,
               is_training_day |-> is_training_day,
               message |-> <<"Meal timing optimized for ",
                             IF is_training_day THEN "training" ELSE "rest", " day">>])

MealTimingHabitAgent_process_message(mem, message, env) ==
    IF message.message_type = "timing_suggestion"
    THEN MealTimingHabitAgent_suggest_timing(mem, message, env)
    ELSE Ack(mem, "meal_timing_agent")

-----------------------------------------------------------------------------
(* a2a/agents/sustainability_environment_agent.py *)

sustainability_database ==
    [high_carbon |-> <<"beef", "lamb", "cheese">>,
     medium_carbon |-> <<"chicken", "pork", "eggs">>,
     low_carbon |-> <<"tofu", "lentils", "vegetables", "fruits">>,
     seasonal_months |-> [berries |-> {6, 7, 8}, pumpkin |-> {9, 10, 11}, citrus |-> {12, 1, 2}]]

SeasonalFoods == <<"berries", "pumpkin", "citrus">>

SustainabilityEnvironmentAgent_score_medium_first(food_lower) ==
    IF ContainsAny(sustainability_database.medium_carbon, food_lower) THEN -1
    ELSE IF ContainsAny(sustainability_database.high_carbon, food_lower) THEN -3
    ELSE IF ContainsAny(sustainability_database.low_carbon, food_lower) THEN 2
    ELSE 0

\* what the if/elif chain of the loop body adds to sustainability_score for a food
SustainabilityEnvironmentAgent_score(food_lower) ==
    IF ContainsAny(sustainability_database.high_carbon, food_lower) THEN -3
    ELSE IF ContainsAny(sustainability_database.medium_carbon, food_lower) THEN -1
    ELSE IF ContainsAny(sustainability_database.low_carbon, food_lower) THEN 2
    ELSE 0

SustainabilityEnvironmentAgent_check_sustainability(mem, message, env) ==
    LET foods == Get(message.content, "foods", <<>>)
        current_month == env.month
        Score(food) == SustainabilityEnvironmentAgent_score(Lower(food))
        Suggestions(food) ==
            LET food_lower == Lower(food)
                replace ==
                    IF ContainsAny(sustainability_database.high_carbon, food_lower)
                    THEN << <<"Consider replacing ", food, " with plant-based alternative">> >>
                    ELSE <<>>
                OutOfSeason(seasonal_food) ==
                    /\ Contains(seasonal_food, food_lower)
                    /\ current_month \notin sustainability_database.seasonal_months[seasonal_food]
                season == [i \in 1..Len(SelectSeq(SeasonalFoods, OutOfSeason)) |->
                              <<food, " is not in season - consider local alternatives">>]
            IN  replace \o season
        sustainability_score == SumSeq([i \in 1..Len(foods) |-> Score(foods[i])])
        suggestions == Flatten([i \in 1..Len(foods) |-> Suggestions(foods[i])])
    IN  Reply(mem, "response",
              [sustainability_score |-> sustainability_score,
               suggestions |-> suggestions,
               message |-> <<"Sustainability score: ", sustainability_score, "/10">>])

SustainabilityEnvironmentAgent_process_message(mem, message, env) ==
    IF message.message_type = "sustainability_check"
    THEN SustainabilityEnvironmentAgent_check_sustainability(mem, message, env)
    ELSE Ack(mem, "sustainability_agent")

-----------------------------------------------------------------------------
(* Measurements as callers supply them: a number (a float) or a text       *)

Num(n) == [num |-> n]

Text(s) == [text |-> s]

TryFloat_zero(v) ==
    IF "num" \in DOMAIN v
    THEN [exc |-> "none", value |-> v.num]
    ELSE [exc |-> "none", value |-> ValueOr(ParseFloat(v.text), 0)]

\* float(v) inside try/except (ValueError, TypeError): the value, or the except branch
TryFloat(v) ==
    IF "num" \in DOMAIN v
    THEN [exc |-> "none", value |-> v.num]
    ELSE ParseFloat(v.text)

-----------------------------------------------------------------------------
(* a2a/agents/medical_biomarker_agent.py *)

ParsedAbove_or_equal(parsed, limit) == parsed.exc = "none" /\ parsed.value >= limit

\* a float() that succeeded with a value above, or below, the limit
ParsedAbove(parsed, limit) == parsed.exc = "none" /\ parsed.value > limit

ParsedBelow(parsed, limit) == parsed.exc = "none" /\ parsed.value < limit

\* `if name in data:` with a float(data[name]) that succeeds and passes the test
Above(data, name, limit) ==
    name \in DOMAIN data /\ ParsedAbove(TryFloat(data[name]), limit)

Below(data, name, limit) ==
    name \in DOMAIN data /\ ParsedBelow(TryFloat(data[name]), limit)

\* the response built from the two lists
MedicalBiomarkerAgent_response(mem, alerts, recommendations) ==
    Reply(mem, "response",
          [alerts |-> alerts,
           recommendations |-> recommendations,
           message |-> <<"Medical analysis complete: ", Len(alerts), " alerts, ",
                         Len(recommendations), " recommendations">>])

\* the alerts and recommendations of the three rules, in the order of the rules
MedicalBiomarkerAgent_report(mem, high_blood_sugar, high_cholesterol, low_vitamin_d) ==
    MedicalBiomarkerAgent_response(mem,
        (IF high_blood_sugar THEN <<"HIGH BLOOD SUGAR - Consult healthcare provider">> ELSE <<>>)
        \o (IF high_cholesterol THEN <<"HIGH CHOLESTEROL - Consider dietary changes">> ELSE <<>>)
        \o (IF low_vitamin_d THEN <<"LOW VITAMIN D - Consider supplementation">> ELSE <<>>),
        (IF high_blood_sugar THEN <<"Focus on low-GI foods and regular exercise">> ELSE <<>>)
        \o (IF high_cholesterol THEN <<"Increase fiber, reduce saturated fats">> ELSE <<>>)
        \o (IF low_vitamin_d THEN <<"Add fortified foods and safe sun exposure">> ELSE <<>>))

MedicalBiomarkerAgent_process_medical_data(mem, message) ==
    LET biomarkers == Get(message.content, "biomarkers", EmptyDict)
    IN  MedicalBiomarkerAgent_report(mem,
            Above(biomarkers, "blood_sugar", Float(125)),
            Above(biomarkers, "cholesterol", Float(200)),
            Below(biomarkers, "vitamin_d", Float(30)))

MedicalBiomarkerAgent_process_message(mem, message) ==
    IF message.message_type = "medical_alert"
    THEN MedicalBiomarkerAgent_process_medical_data(mem, message)
    ELSE Ack(mem, "medical_biomarker_agent")

-----------------------------------------------------------------------------
(* a2a/agents/feedback_learning_agent.py *)

\* str(feedback).lower() as far as the phrase tests can tell: the keys a feedback
\* dict carries (comment, weight_plateau, boredom, progress) and its booleans and
\* numbers hold none of the phrases, so a phrase is in the repr exactly when it is
\* in the free-text comment
FeedbackText(feedback) == Lower(Get(feedback, "comment", ""))

FeedbackLearningAgent_analyze_patterns_of_all_users(feedback_history, user_id) ==
    LET Count(words) ==
            Len(SelectSeq(feedback_history,
                          LAMBDA f : ContainsAny(words, FeedbackText(f.feedback))))
    IN  [skips_lunch |-> Count(<<"skip lunch", "no lunch">>),
         complains_hunger |-> Count(<<"hungry", "hunger">>),
         bored_with_meals |-> Count(<<"boring", "same">>),
         loves_spicy |-> Count(<<"spicy", "hot">>),
         prefers_quick_meals |-> Count(<<"quick", "fast">>)]

FeedbackLearningAgent_analyze_patterns(feedback_history, user_id) ==
    LET user_feedback == SelectSeq(feedback_history, LAMBDA f : f.user_id = user_id)
        Count(words) ==
            Len(SelectSeq(user_feedback, LAMBDA f : ContainsAny(words, FeedbackText(f.feedback))))
    IN  [skips_lunch |-> Count(<<"skip lunch", "no lunch">>),
         complains_hunger |-> Count(<<"hungry", "hunger">>),
         bored_with_meals |-> Count(<<"boring", "same">>),
         loves_spicy |-> Count(<<"spicy", "hot">>),
         prefers_quick_meals |-> Count(<<"quick", "fast">>)]

FeedbackLearningAgent_process_feedback(mem, message) ==
    LET feedback == Get(message.content, "feedback", EmptyDict)
        user_id == Get(message.content, "user_id", "unknown")
        mem1 == [mem EXCEPT !.feedback_learning_agent.feedback_history =
                                Append(@, [user_id |-> user_id, feedback |-> feedback])]
        patterns == FeedbackLearningAgent_analyze_patterns(
                        mem1.feedback_learning_agent.feedback_history, user_id)
        adaptations ==
            (IF patterns.skips_lunch > 3 THEN <<"Shift calories to breakfast/dinner">> ELSE <<>>)
            \o (IF patterns.complains_hunger > 2 THEN <<"Increase protein and fiber content">> ELSE <<>>)
            \o (IF patterns.bored_with_meals > 2
                THEN <<"Introduce more variety and new cuisines">> ELSE <<>>)
    IN  Reply(mem1, "response",
              [patterns |-> patterns,
               adaptations |-> adaptations,
               message |-> <<"Feedback processed: ", Len(adaptations), " adaptations suggested">>])

FeedbackLearningAgent_process_message(mem, message) ==
    IF message.message_type = "feedback_processing"
    THEN FeedbackLearningAgent_process_feedback(mem, message)
    ELSE Ack(mem, "feedback_learning_agent")

-----------------------------------------------------------------------------
(* a2a/agents/emergency_risk_agent.py *)

risk_thresholds ==
    [weight_loss_rate |-> [dangerous |-> Float(2), concerning |-> Float(1)],
     bmi |-> [underweight |-> 185000, obese |-> Float(30)],
     blood_pressure |-> [high |-> Float(140), low |-> Float(90)],
     heart_rate |-> [high |-> Float(100), low |-> Float(60)]]

known_interactions ==
    [warfarin |-> <<"vitamin_k", "fish_oil", "garlic">>,
     statins |-> <<"grapefruit", "red_yeast_rice">>,
     blood_pressure_meds |-> <<"licorice", "garlic">>,
     diabetes_meds |-> <<"chromium", "cinnamon">>]

EmergencyRiskAgent_check_interaction(medication, supplement) ==
    LET med_lower == Lower(medication)
        supp_lower == Lower(supplement)
    IN  \E med \in DOMAIN known_interactions :
            /\ Contains(med, med_lower)
            /\ ContainsAny(known_interactions[med], supp_lower)

\* the flag recorded when anything was found, then the response
EmergencyRiskAgent_response(mem, user_profile, emergencies, risks) ==
    Reply(IF Len(emergencies) > 0 \/ Len(risks) > 0
          THEN [mem EXCEPT !.emergency_risk_agent.emergency_flags =
                    Append(@, [emergencies |-> emergencies,
                               risks |-> risks,
                               user_id |-> Get(user_profile, "name", "unknown")])]
          ELSE mem,
          "response",
          [emergencies |-> emergencies,
           risks |-> risks,
           requires_medical_attention |-> Len(emergencies) > 0,
           message |-> <<"Risk assessment complete: ", Len(emergencies), " emergencies, ",
                         Len(risks), " risks">>])

\* the emergencies of the medication x supplement loop
EmergencyRiskAgent_interactions(medications, supplements) ==
    Flatten([i \in 1..Len(medications) |->
        Flatten([j \in 1..Len(supplements) |->
            IF EmergencyRiskAgent_check_interaction(medications[i], supplements[j])
            THEN << <<"SUPPLEMENT-DRUG INTERACTION: ", supplements[j], " with ",
                      medications[i]>> >>
            ELSE <<>>])])

\* the emergencies and the risks, each list in the order the rules append to it;
\* the arguments tell which comparison of each if/elif pair holds
EmergencyRiskAgent_rules(mem, health_data, user_profile, wlr_dangerous, wlr_concerning, bmi_underweight, bmi_obese, bp_high, bp_low) ==
    EmergencyRiskAgent_response(mem, user_profile,
        (IF wlr_dangerous
         THEN <<"DANGEROUS WEIGHT LOSS - Consult healthcare provider immediately">>
         ELSE <<>>)
        \o (IF /\ "fatigue_level" \in DOMAIN health_data
               /\ health_data.fatigue_level \in {"extreme", "severe"}
            THEN <<"EXTREME FATIGUE - May indicate underlying health issue">>
            ELSE <<>>)
        \o EmergencyRiskAgent_interactions(Get(user_profile, "medications", <<>>),
                                           Get(health_data, "supplements", <<>>)),
        (IF ~wlr_dangerous /\ wlr_concerning
         THEN <<"Rapid weight loss detected - consider slowing down">>
         ELSE <<>>)
        \o (IF bmi_underweight
            THEN <<"Underweight BMI - consider increasing caloric intake">>
            ELSE IF bmi_obese
            THEN <<"High BMI - consider medical supervision for weight loss">>
            ELSE <<>>)
        \o (IF bp_high
            THEN <<"High blood pressure - monitor closely">>
            ELSE IF bp_low
            THEN <<"Low blood pressure - consider medical evaluation">>
            ELSE <<>>))

EmergencyRiskAgent_assess_risks(mem, message) ==
    LET health_data == Get(message.content, "health_data", EmptyDict)
    IN  EmergencyRiskAgent_rules(mem, health_data,
            Get(message.content, "user_profile", EmptyDict),
            Above(health_data, "weight_loss_rate", risk_thresholds.weight_loss_rate.dangerous),
            Above(health_data, "weight_loss_rate", risk_thresholds.weight_loss_rate.concerning),
            Below(health_data, "bmi", risk_thresholds.bmi.underweight),
            Above(health_data, "bmi", risk_thresholds.bmi.obese),
            Above(health_data, "blood_pressure", risk_thresholds.blood_pressure.high),
            Below(health_data, "blood_pressure", risk_thresholds.blood_pressure.low))

EmergencyRiskAgent_process_message(mem, message) ==
    IF message.message_type = "emergency_alert"
    THEN EmergencyRiskAgent_assess_risks(mem, message)
    ELSE Ack(mem, "emergency_risk_agent")

-----------------------------------------------------------------------------
(* a2a/agents/meal_analysis_agent.py *)
(* Plans are keyed by DayKeys and MealKeys, which fixes the iteration order.  *)

MealAnalysisAgent_process_message(mem, message) ==
    LET content == message.content
        meals_by_day == Get(content, "daily_meals", EmptyDict)
        MealFindings(meal_key, meal) ==
            LET protein == Get(meal, "protein_g", 0)
                carbs == Get(meal, "carbs_g", 0)
                fats == Get(meal, "fats_g", 0)
                calories == Get(meal, "calories", 0)
            IN  (IF calories <= 0 THEN << <<meal_key, " has missing calories">> >> ELSE <<>>)
                \o (IF protein < Float(15) THEN << <<meal_key, " low protein (<15g)">> >> ELSE <<>>)
                \o (IF fats > Float(40) THEN << <<meal_key, " high fat (>40g)">> >> ELSE <<>>)
                \o (IF carbs > Float(120) THEN << <<meal_key, " high carbs (>120g)">> >> ELSE <<>>)
        DayFindings(day_key) ==
            LET meals == meals_by_day[day_key]
                keys == KeysInOrder(meals, MealKeys)
            IN  Flatten([i \in 1..Len(keys) |-> MealFindings(keys[i], meals[keys[i]])])
        flagged == {day_key \in DOMAIN meals_by_day : Len(DayFindings(day_key)) > 0}
        findings == [day_key \in flagged |-> DayFindings(day_key)]
    IN  Reply(mem, "meal_analysis", [findings |-> findings])

-----------------------------------------------------------------------------
(* a2a/agents/daily_nutrition_analysis_agent.py *)

\* Python None as a value of a dict field
None == "None"

\* d_cals, d_prot, d_carbs or d_fats of one day
DailyNutritionAnalysisAgent_day_sum(meals, field) ==
    SumSeq([i \in 1..Len(KeysInOrder(meals, MealKeys)) |->
        Get(meals[KeysInOrder(meals, MealKeys)[i]], field, 0)])

\* results["days"][day_key]
DailyNutritionAnalysisAgent_day(meals, target_cal) ==
    [calories |-> DailyNutritionAnalysisAgent_day_sum(meals, "calories"),
     protein_g |-> DailyNutritionAnalysisAgent_day_sum(meals, "protein_g"),
     carbs_g |-> DailyNutritionAnalysisAgent_day_sum(meals, "carbs_g"),
     fats_g |-> DailyNutritionAnalysisAgent_day_sum(meals, "fats_g"),
     calorie_diff |-> IF target_cal # 0
                      THEN DailyNutritionAnalysisAgent_day_sum(meals, "calories") - target_cal
                      ELSE None]

\* total / num_days over the days
DailyNutritionAnalysisAgent_avg(days, field) ==
    SumSeq([i \in 1..Len(KeysInOrder(days, DayKeys)) |->
               days[KeysInOrder(days, DayKeys)[i]][field]])
        \div Max2(Cardinality(DOMAIN days), 1)

\* results["summary"] and the response
DailyNutritionAnalysisAgent_response(mem, days) ==
    Reply(mem, "daily_nutrition_analysis",
          [days |-> days,
           summary |-> [avg_calories |-> DailyNutritionAnalysisAgent_avg(days, "calories"),
                        avg_protein_g |-> DailyNutritionAnalysisAgent_avg(days, "protein_g"),
                        avg_carbs_g |-> DailyNutritionAnalysisAgent_avg(days, "carbs_g"),
                        avg_fats_g |-> DailyNutritionAnalysisAgent_avg(days, "fats_g")]])

DailyNutritionAnalysisAgent_process_message(mem, message) ==
    LET daily_meals == Get(message.content, "daily_meals", EmptyDict)
        target_cal == Get(message.content, "total_calories", 0)
    IN  DailyNutritionAnalysisAgent_response(mem,
            Dict([day_key \in DOMAIN daily_meals |->
                     DailyNutritionAnalysisAgent_day(daily_meals[day_key], target_cal)]))

-----------------------------------------------------------------------------
(* a2a/agents/progress_analysis_agent.py *)

ProgressAnalysisAgent_process_message_daily_target(mem, message) ==
    LET days == Get(message.content, "days", EmptyDict)
        day_keys == KeysInOrder(days, DayKeys)
        target_cal == Get(message.content, "total_calories", 0) \div Max2(Len(day_keys), 1)
        deltas == IF target_cal # 0
                  THEN List([i \in 1..Len(day_keys) |->
                                Get(days[day_keys[i]], "calories", 0) - target_cal])
                  ELSE <<>>
        avg_delta == IF Len(deltas) > 0 THEN SumSeq(deltas) \div Len(deltas) ELSE 0
        trend == IF avg_delta < 0 - Float(200) THEN "likely_weight_loss"
                 ELSE IF avg_delta > Float(200) THEN "likely_weight_gain"
                 ELSE "maintenance"
    IN  Reply(mem, "progress_analysis",
              [avg_calorie_delta |-> avg_delta, trend |-> trend, warnings |-> <<>>])

ProgressAnalysisAgent_process_message(mem, message) ==
    LET content == message.content
        days == Get(content, "days", EmptyDict)
        target_cal == Get(content, "total_calories", 0)
        day_keys == KeysInOrder(days, DayKeys)
        deltas == IF target_cal # 0
                  THEN List([i \in 1..Len(day_keys) |->
                                Get(days[day_keys[i]], "calories", 0) - target_cal])
                  ELSE <<>>
        low == SelectSeq(day_keys, LAMBDA k : Get(days[k], "protein_g", 0) < Float(70))
        warnings == [i \in 1..Len(low) |-> <<low[i], " protein low (<70g)">>]
        avg_delta == IF Len(deltas) > 0 THEN SumSeq(deltas) \div Len(deltas) ELSE 0
        trend == IF avg_delta < 0 - Float(200) THEN "likely_weight_loss"
                 ELSE IF avg_delta > Float(200) THEN "likely_weight_gain"
                 ELSE "maintenance"
    IN  Reply(mem, "progress_analysis",
              [avg_calorie_delta |-> avg_delta, trend |-> trend, warnings |-> warnings])

-----------------------------------------------------------------------------
(* a2a/agents/cost_analysis_agent.py *)

\* PRICE_TABLE, USD per gram as floats, in the dict's order
PRICE_TABLE ==
    << <<"chicken", 120>>, <<"salmon", 200>>, <<"beef", 180>>, <<"oats", 20>>,
       <<"apple", 30>>, <<"banana", 25>>, <<"broccoli", 40>>, <<"rice", 15>>,
       <<"yogurt", 50>>, <<"almonds", 100>> >>

\* the value of the first entry of an ordered table whose key is in the name
FirstMatch(table, lower, default) ==
    IF \E i \in DOMAIN table : Contains(table[i][1], lower)
    THEN table[CHOOSE i \in DOMAIN table :
                  /\ Contains(table[i][1], lower)
                  /\ \A j \in 1..(i - 1) : ~Contains(table[j][1], lower)][2]
    ELSE default

estimate_item_cost(name, amount) ==
    LET grams ==
            IF Contains("g", amount)
            THEN ValueOr(ParseFloat(Strip(RemoveAll(amount, "g"))), Float(50))
            ELSE IF Contains("kg", amount)
            THEN ValueOr([ParseFloat(Strip(RemoveAll(amount, "kg"))) EXCEPT !.value = @ * 1000],
                         Float(50))
            ELSE IF Contains("cup", amount) THEN Float(100)
            ELSE Float(50)
    IN  \* grams * price_per_g
        ((grams \div 100) * FirstMatch(PRICE_TABLE, Lower(name), 30)) \div 100

\* the ingredients of every meal of a day, in meal order
DayIngredients(meals) ==
    LET keys == KeysInOrder(meals, MealKeys)
    IN  Flatten([i \in 1..Len(keys) |-> Get(meals[keys[i]], "ingredients", <<>>)])

\* the average over the days and the response
CostAnalysisAgent_response(mem, days_cost) ==
    Reply(mem, "cost_analysis",
          [daily_costs |-> days_cost,
           average_cost_per_day |->
               SumSeq([i \in 1..Len(KeysInOrder(days_cost, DayKeys)) |->
                          days_cost[KeysInOrder(days_cost, DayKeys)[i]]])
                   \div Max2(Cardinality(DOMAIN days_cost), 1)])

\* total_cost of one day
CostAnalysisAgent_day_cost(ings) ==
    SumSeq([i \in 1..Len(ings) |->
        estimate_item_cost(Get(ings[i], "name", ""), Get(ings[i], "amount", ""))])

CostAnalysisAgent_process_message(mem, message) ==
    LET daily_meals == Get(message.content, "daily_meals", EmptyDict)
    IN  CostAnalysisAgent_response(mem,
            Dict([day_key \in DOMAIN daily_meals |->
                     CostAnalysisAgent_day_cost(DayIngredients(daily_meals[day_key]))]))

-----------------------------------------------------------------------------
(* a2a/agents/sustainability_agent.py *)

\* FOOTPRINT, kg CO2e per kg in tenths, in the dict's order
FOOTPRINT ==
    << <<"beef", 270>>, <<"lamb", 390>>, <<"pork", 120>>, <<"chicken", 69>>,
       <<"fish", 54>>, <<"rice", 27>>, <<"beans", 8>>, <<"lentils", 9>>,
       <<"oats", 10>>, <<"vegetable", 5>> >>

estimate_co2e(name, amount) ==
    LET grams ==
            IF Contains("g", amount)
            THEN ValueOr(ParseFloat(Strip(RemoveAll(amount, "g"))), Float(100))
            ELSE IF Contains("kg", amount)
            THEN ValueOr([ParseFloat(Strip(RemoveAll(amount, "kg"))) EXCEPT !.value = @ * 1000],
                         Float(100))
            ELSE Float(100)
    IN  \* (grams / 1000.0) * kg_co2e
        ((grams \div 1000) * FirstMatch(FOOTPRINT, Lower(name), 12)) \div 10

\* the average over the days and the response
SustainabilityAgent_response(mem, co2e_per_day) ==
    Reply(mem, "sustainability_check",
          [daily_kg_co2e |-> co2e_per_day,
           average_kg_co2e_per_day |->
               SumSeq([i \in 1..Len(KeysInOrder(co2e_per_day, DayKeys)) |->
                          co2e_per_day[KeysInOrder(co2e_per_day, DayKeys)[i]]])
                   \div Max2(Cardinality(DOMAIN co2e_per_day), 1)])

\* total of one day
SustainabilityAgent_day_total(ings) ==
    SumSeq([i \in 1..Len(ings) |->
        estimate_co2e(Get(ings[i], "name", ""), Get(ings[i], "amount", ""))])

SustainabilityAgent_process_message(mem, message) ==
    LET daily_meals == Get(message.content, "daily_meals", EmptyDict)
    IN  SustainabilityAgent_response(mem,
            Dict([day_key \in DOMAIN daily_meals |->
                     SustainabilityAgent_day_total(DayIngredients(daily_meals[day_key]))]))

-----------------------------------------------------------------------------
(* process_message of the agent registered under agent_id *)

process_message(agent_id, mem, message, env) ==
    CASE agent_id = "preference_agent" -> PreferenceAgent_process_message(mem, message)
      [] agent_id = "goal_agent" -> GoalAgent_process_message(mem, message)
      [] agent_id = "food_knowledge_agent" -> FoodKnowledgeAgent_process_message(mem, message)
      [] agent_id = "restriction_safety_agent" ->
            RestrictionSafetyAgent_process_message(mem, message)
      [] agent_id = "adaptation_agent" -> AdaptationAgent_process_message(mem, message)
      [] agent_id = "motivation_education_agent" ->
            MotivationEducationAgent_process_message(mem, message, env)
      [] agent_id = "cultural_lifestyle_agent" ->
            CulturalLifestyleAgent_process_message(mem, message)
      [] agent_id = "budget_accessibility_agent" ->
            BudgetAccessibilityAgent_process_message(mem, message)
      [] agent_id = "meal_timing_agent" -> MealTimingHabitAgent_process_message(mem, message, env)
      [] agent_id = "sustainability_agent" ->
            SustainabilityEnvironmentAgent_process_message(mem, message, env)
      [] agent_id = "medical_biomarker_agent" ->
            MedicalBiomarkerAgent_process_message(mem, message)
      [] agent_id = "feedback_learning_agent" ->
            FeedbackLearningAgent_process_message(mem, message)
      [] agent_id = "emergency_risk_agent" -> EmergencyRiskAgent_process_message(mem, message)
      [] agent_id = "meal_analysis_agent" -> MealAnalysisAgent_process_message(mem, message)
      [] agent_id = "daily_nutrition_analysis_agent" ->
            DailyNutritionAnalysisAgent_process_message(mem, message)
      [] agent_id = "progress_analysis_agent" ->
            ProgressAnalysisAgent_process_message(mem, message)
      [] agent_id = "cost_analysis_agent" -> CostAnalysisAgent_process_message(mem, message)
      [] agent_id = "sustainability_analysis_agent" ->
            SustainabilityAgent_process_message(mem, message)

\* The agents that build their response with A2AMessage(...) address it to
\* `message.sender or "orchestrator"`, the others to message.sender
AnalysisAgentIds == {AllAgentIds[i] : i \in 14..18}

ResponseRecipient(agent_id, message) ==
    IF agent_id \in AnalysisAgentIds /\ message.sender = "" THEN "orchestrator"
    ELSE message.sender

-----------------------------------------------------------------------------
(* protocol.py: Agent and A2AOrchestrator.                                   *)
(* An orchestrator and its agents are the record ctx; an operation takes the *)
(* ctx it starts from and returns the ctx it leaves.                         *)

Context(ag, mq, ch, mem, mh, id) ==
    [agents |-> ag, message_queue |-> mq, conversation_history |-> ch,
     memory |-> mem, message_history |-> mh, next_id |-> id]

\* A2AOrchestrator.__init__
EmptyOrchestrator == Context(<<>>, EmptyDict, EmptyDict, NoMemory, <<>>, 1)

receive_message_queue_only(ctx, agent_id, message) ==
    [ctx EXCEPT !.message_queue[agent_id] = Append(@, message)]

\* Agent.receive_message
receive_message(ctx, agent_id, message) ==
    [ctx EXCEPT !.message_queue[agent_id] = Append(@, message),
                !.conversation_history[agent_id] = Append(@, message)]

\* A2AOrchestrator.register_agent(agent_class()): a new instance, with an empty
\* queue and history; the key keeps its place in the dict when it was there already
register_agent(ctx, agent_id) ==
    [ctx EXCEPT !.agents = IF agent_id \in Range(@) THEN @ ELSE Append(@, agent_id),
                !.message_queue = (agent_id :> <<>>) @@ @,
                !.conversation_history = (agent_id :> <<>>) @@ @,
                !.memory = Construct(@, agent_id)]

\* What a call on the orchestrator hands back: the ctx it leaves, the exception
\* class it raised ("none" when it returned) with its str(), and the value it returned
Returned(ctx, value) == [ctx |-> ctx, exc |-> "none", text |-> <<>>, value |-> value]

Raised(ctx, exc, text) == [ctx |-> ctx, exc |-> exc, text |-> text, value |-> EmptyDict]

send_message_record_response_only(ctx, message, r) ==
    IF r.exc # "none"
    THEN Raised([ctx EXCEPT !.memory = r.memory], r.exc, r.text)
    ELSE Returned([ctx EXCEPT !.memory = r.memory,
                              !.next_id = @ + 1,
                              !.message_history =
                                  Append(@, A2AMessage(ctx.next_id, message.recipient,
                                                       ResponseRecipient(message.recipient, message),
                                                       r.message_type, r.content))],
                  A2AMessage(ctx.next_id, message.recipient,
                             ResponseRecipient(message.recipient, message),
                             r.message_type, r.content))

\* the end of send_message: r is what process_message returned or raised, the
\* response takes the next message id, and message_history gets request and response
send_message_record(ctx, message, r) ==
    IF r.exc # "none"
    THEN Raised([ctx EXCEPT !.memory = r.memory], r.exc, r.text)
    ELSE Returned([ctx EXCEPT !.memory = r.memory,
                              !.next_id = @ + 1,
                              !.message_history =
                                  @ \o <<message,
                                         A2AMessage(ctx.next_id, message.recipient,
                                                    ResponseRecipient(message.recipient, message),
                                                    r.message_type, r.content)>>],
                  A2AMessage(ctx.next_id, message.recipient,
                             ResponseRecipient(message.recipient, message),
                             r.message_type, r.content))

send_message_change_first(ctx, message, env) ==
    IF message.recipient \notin Range(ctx.agents)
    THEN Raised([ctx EXCEPT !.message_history = Append(@, message)], "ValueError",
                <<"Recipient agent ", message.recipient, " not found">>)
    ELSE send_message_record(receive_message(ctx, message.recipient, message), message,
                             process_message(message.recipient, ctx.memory, message, env))

\* A2AOrchestrator.send_message
send_message(ctx, message, env) ==
    IF message.recipient \notin Range(ctx.agents)
    THEN Raised(ctx, "ValueError", <<"Recipient agent ", message.recipient, " not found">>)
    ELSE send_message_record(receive_message(ctx, message.recipient, message), message,
                             process_message(message.recipient, ctx.memory, message, env))

\* send_message(A2AMessage(sender=..., recipient=..., message_type=..., content=...))
Dispatch(ctx, sender, recipient, message_type, content, env) ==
    send_message([ctx EXCEPT !.next_id = @ + 1],
                 A2AMessage(ctx.next_id, sender, recipient, message_type, content), env)

\* A2AOrchestrator.broadcast_message: the loop over self.agents.items() from the
\* i-th agent on, responses being the list built so far; r is what the i-th
\* send_message returned or raised
RECURSIVE broadcast_from(_, _, _, _, _, _, _)
broadcast_sent(r, i, responses, sender, message_type, content, env) ==
    IF r.exc # "none" THEN Raised(r.ctx, r.exc, r.text)
    ELSE broadcast_from(r.ctx, i + 1, Append(responses, r.value),
                        sender, message_type, content, env)

broadcast_from(ctx, i, responses, sender, message_type, content, env) ==
    IF i > Len(ctx.agents) THEN Returned(ctx, responses)
    ELSE IF ctx.agents[i] = sender
    THEN broadcast_from(ctx, i + 1, responses, sender, message_type, content, env)
    ELSE broadcast_sent(Dispatch(ctx, sender, ctx.agents[i], message_type, content, env),
                        i, responses, sender, message_type, content, env)

broadcast_message(ctx, sender, message_type, content, env) ==
    broadcast_from(ctx, 1, <<>>, sender, message_type, content, env)

\* A2AOrchestrator.get_agent_status
get_agent_status(ctx) ==
    [agent_id \in Range(ctx.agents) |->
        [pending_messages |-> Len(ctx.message_queue[agent_id]),
         conversation_history_length |-> Len(ctx.conversation_history[agent_id])]]

\* the dict get_agent_insights builds for one agent
AgentInsight(pending, history) ==
    [status |-> IF Len(pending) > 0 THEN "Active" ELSE "Ready",
     insights |-> [pending_messages |-> Len(pending), conversation_history |-> Len(history)],
     last_activity |-> IF Len(history) > 0 THEN "Recent" ELSE "None"]

get_agent_insights_draining(ctx) ==
    Returned([ctx EXCEPT !.message_queue = [agent_id \in DOMAIN @ |-> <<>>]],
             [agent_id \in Range(ctx.agents) |->
                 AgentInsight(ctx.message_queue[agent_id], ctx.conversation_history[agent_id])])

\* A2ADietitianOrchestrator.get_agent_insights; get_pending_messages hands out a
\* copy of the queue
get_agent_insights(ctx) ==
    Returned(ctx,
             [agent_id \in Range(ctx.agents) |->
                 AgentInsight(ctx.message_queue[agent_id], ctx.conversation_history[agent_id])])

-----------------------------------------------------------------------------
(* The values callers hand to the orchestrator *)

\* a profile dict that names every UserProfile field
CompleteProfile ==
    [name |-> "Test User", age |-> 30, gender |-> "male", height_cm |-> 175,
     weight_kg |-> 70, activity_level |-> "moderately active", goal_type |-> "weight_loss",
     dietary_preferences |-> <<>>, allergies |-> <<"nuts">>, intolerances |-> <<>>,
     disliked_foods |-> <<>>, avoid_ingredients |-> <<>>, cuisine_preference |-> "indian",
     budget_level |-> "medium", cooking_skill |-> "beginner", time_availability |-> "medium",
     training_days |-> <<0, 2>>, medical_conditions |-> <<>>, medications |-> <<"warfarin">>,
     country |-> "United States"]

VegetarianProfile ==
    [CompleteProfile EXCEPT !.dietary_preferences = <<"vegetarian">>,
                            !.goal_type = "muscle_gain", !.budget_level = "low"]

\* a profile dict that names only some of the fields
PartialProfile == [name |-> "Test User", age |-> 30, gender |-> "female"]

Profiles == <<CompleteProfile, VegetarianProfile, PartialProfile, EmptyDict>>

\* random.choice over four tips, the weekday and the month of datetime.now()
Envs == <<Environment(1, 0, 7), Environment(3, 5, 12)>>

-----------------------------------------------------------------------------
(* The state of the program: one orchestrator with its agents *)

Ctx == Context(agents, message_queue, conversation_history, memory, message_history, next_id)

Leave(ctx) ==
    /\ agents' = ctx.agents
    /\ message_queue' = ctx.message_queue
    /\ conversation_history' = ctx.conversation_history
    /\ memory' = ctx.memory
    /\ message_history' = ctx.message_history
    /\ next_id' = ctx.next_id

Outcome(op, args, exc, text, value) ==
    [op |-> op, args |-> args, exc |-> exc, text |-> text, value |-> value]

\* the orchestrator as a call leaves it, and the record of the call
Done(op, args, r) ==
    /\ Leave(r.ctx)
    /\ outcome' = Outcome(op, args, r.exc, r.text, r.value)

-----------------------------------------------------------------------------
(* SpecProto: a plain A2AOrchestrator, as protocol.py defines it, on which   *)
(* callers register agents, send and broadcast                               *)

\* the agent classes callers register, and an id nobody registers
ProtoAgents == <<"preference_agent", "goal_agent", "meal_analysis_agent">>

UnknownAgent == "unknown_agent"

ProtoRecipients == ProtoAgents \o <<UnknownAgent>>

ProtoSenders == <<"orchestrator", "goal_agent">>

\* message type and content of the messages callers send
ProtoMessages ==
    << <<"preference_update", [profile |-> CompleteProfile]>>,
       <<"preference_update", [allergies |-> <<"nuts">>]>>,
       <<"goal_analysis", [profile |-> CompleteProfile]>>,
       <<"goal_analysis", [profile |-> PartialProfile]>>,
       <<"request", EmptyDict>>,
       <<"notification", EmptyDict>> >>

InitProto ==
    /\ agents = EmptyOrchestrator.agents
    /\ message_queue = EmptyOrchestrator.message_queue
    /\ conversation_history = EmptyOrchestrator.conversation_history
    /\ memory = EmptyOrchestrator.memory
    /\ message_history = EmptyOrchestrator.message_history
    /\ next_id = EmptyOrchestrator.next_id
    /\ state = SystemState(EmptyDict)
    /\ conversation_flows = <<>>
    /\ llm = FALSE
    /\ now = 0
    /\ calls = 0
    /\ outcome = Outcome("__init__", <<>>, "none", <<>>, EmptyDict)

\* callers register an agent class once
RegisterAgent(agent_id) ==
    /\ agent_id \notin Range(agents)
    /\ Leave(register_agent(Ctx, agent_id))
    /\ outcome' = Outcome("register_agent", <<agent_id>>, "none", <<>>, EmptyDict)
    /\ UNCHANGED <<state, conversation_flows, llm, now, calls>>

SendMessage(sender, recipient, message_type, content, env) ==
    /\ next_id <= MaxDispatch
    /\ Done("send_message", <<A2AMessage(next_id, sender, recipient, message_type, content)>>,
            Dispatch(Ctx, sender, recipient, message_type, content, env))
    /\ UNCHANGED <<state, conversation_flows, llm, now, calls>>

BroadcastMessage(sender, message_type, content, env) ==
    /\ next_id <= MaxDispatch
    /\ Done("broadcast_message", <<sender, message_type, content>>,
            broadcast_message(Ctx, sender, message_type, content, env))
    /\ UNCHANGED <<state, conversation_flows, llm, now, calls>>

NextProto ==
    \/ \E i \in DOMAIN ProtoAgents : RegisterAgent(ProtoAgents[i])
    \/ \E r \in DOMAIN ProtoRecipients, m \in DOMAIN ProtoMessages, e \in DOMAIN Envs :
            SendMessage("orchestrator", ProtoRecipients[r],
                        ProtoMessages[m][1], ProtoMessages[m][2], Envs[e])
    \/ \E s \in DOMAIN ProtoSenders, m \in DOMAIN ProtoMessages, e \in DOMAIN Envs :
            BroadcastMessage(ProtoSenders[s], ProtoMessages[m][1], ProtoMessages[m][2], Envs[e])

SpecProto == InitProto /\ [][NextProto]_vars

-----------------------------------------------------------------------------
(* Properties of the dispatcher, under SpecProto *)

\* the step is a call of op, as outcome records it
Called(op) == outcome'.op = op

\* C1: send_message with a recipient that is not registered raises the
\* recipient-not-found ValueError, whatever the type and content of the message,
\* and leaves message_history, every queue, every conversation history and the
\* agents as they were.
C1_UnregisteredRecipientRaises ==
    [][(Called("send_message") /\ outcome'.args[1].recipient \notin Range(agents))
          => /\ outcome'.exc = "ValueError"
             /\ outcome'.text = <<"Recipient agent ", outcome'.args[1].recipient, " not found">>
             /\ UNCHANGED <<agents, message_queue, conversation_history, memory,
                            message_history>>]_vars

\* C1 happens: a send to the unknown id has raised on an orchestrator that has
\* agents and a history to lose
C1_Witness ==
    /\ outcome.op = "send_message"
    /\ outcome.args[1].recipient = UnknownAgent
    /\ outcome.exc = "ValueError"
    /\ Len(agents) > 0
    /\ Len(message_history) > 0

\* message_history is made of (request, response) pairs, in dispatch order
PairedHistory ==
    /\ Len(message_history) % 2 = 0
    /\ \A i \in 1..(Len(message_history) \div 2) :
          LET request == message_history[2 * i - 1]
              response == message_history[2 * i]
          IN  /\ response.sender = request.recipient
              /\ response.recipient = request.sender
              /\ request.message_id < response.message_id
              /\ 2 * i < Len(message_history)
                    => response.message_id < message_history[2 * i + 1].message_id

\* C2: a send_message that returns appends to message_history exactly the request
\* and then the response it returns, the request is the last entry of the
\* recipient's conversation_history, and message_history is always the sequence
\* of (request, response) pairs in dispatch order.
C2_HistoryGrowsByPairs ==
    /\ []PairedHistory
    /\ [][(Called("send_message") /\ outcome'.exc = "none")
            => /\ message_history' = message_history \o <<outcome'.args[1], outcome'.value>>
               /\ LET history == conversation_history'[outcome'.args[1].recipient]
                  IN  history[Len(history)] = outcome'.args[1]]_vars

\* C2 happens: the second of two dispatches has returned
C2_Witness ==
    /\ outcome.op = "send_message"
    /\ outcome.exc = "none"
    /\ Len(message_history) = 4

\* the ids a broadcast from sender addresses, in registration order
BroadcastRecipients(registry, sender) == SelectSeq(registry, LAMBDA a : a # sender)

\* C3: broadcast_message returns one response per registered agent other than the
\* sender, in registration order, the i-th response sent by the i-th recipient,
\* for every message type and content.
C3_BroadcastAnswersAll ==
    [][Called("broadcast_message")
          => /\ outcome'.exc = "none"
             /\ Len(outcome'.value) = Len(BroadcastRecipients(agents, outcome'.args[1]))
             /\ \A i \in 1..Len(outcome'.value) :
                   outcome'.value[i].sender = BroadcastRecipients(agents, outcome'.args[1])[i]]_vars

\* C3 as far as it holds: a broadcast that returns has one response per recipient
C3_ReturnedBroadcastAnswersAll ==
    [][(Called("broadcast_message") /\ outcome'.exc = "none")
          => /\ Len(outcome'.value) = Len(BroadcastRecipients(agents, outcome'.args[1]))
             /\ \A i \in 1..Len(outcome'.value) :
                   outcome'.value[i].sender = BroadcastRecipients(agents, outcome'.args[1])[i]]_vars

\* the broadcast that does not return: GOAL_ANALYSIS with an incomplete profile
\* reaches the goal agent, which raises TypeError
C3_BroadcastRaised ==
    /\ outcome.op = "broadcast_message"
    /\ outcome.exc = "TypeError"
    /\ "goal_agent" \in Range(agents)

-----------------------------------------------------------------------------
(* a2a/orchestrator.py: A2ADietitianOrchestrator *)

\* bool(d) for a dict, and for an argument that is a dict or None (None is the
\* empty dict here: the code reads such an argument only as `d or {}` and `if d`)
Truthy(d) == DOMAIN d # {}

\* _register_all_agents: the loop over agents + analysis_agents, from the i-th on
RECURSIVE register_all_agents_from(_, _)
register_all_agents_from(ctx, i) ==
    IF i > Len(AllAgentIds) THEN ctx
    ELSE register_all_agents_from(register_agent(ctx, AllAgentIds[i]), i + 1)

\* A2ADietitianOrchestrator.__init__: the orchestrator with its eighteen agents
DietitianOrchestrator == register_all_agents_from(EmptyOrchestrator, 1)

\* what a step of a pipeline sends: recipient, message type and content
Request(recipient, message_type, content) ==
    [recipient |-> recipient, message_type |-> message_type, content |-> content]

RunFlowStages_emergency_first ==
    <<"preference", "goal", "food_knowledge", "safety", "meal", "daily", "progress",
      "cost", "sustainability", "emergency", "adaptation">>

\* the stages of run_flow, one send_message each, in the order of the code
RunFlowStages ==
    <<"preference", "goal", "food_knowledge", "safety", "meal", "daily", "progress",
      "cost", "sustainability", "adaptation", "emergency">>

\* the loop of run_flow that collects the ingredient names of fk_resp.content
run_flow_foods(content) ==
    LET daily_meals == Get(content, "daily_meals", EmptyDict)
        days == KeysInOrder(daily_meals, DayKeys)
        ings == Flatten([d \in 1..Len(days) |-> DayIngredients(daily_meals[days[d]])])
    IN  List([i \in 1..Len(ings) |-> Get(ings[i], "name", "")])

run_flow_analysis_results_without_cost(resp) ==
    [meal |-> resp.meal, daily |-> resp.daily, progress |-> resp.progress,
     sustainability |-> resp.sustainability]

\* the dict run_flow assigns to state.analysis_results; resp maps a stage to the
\* content of its response
run_flow_analysis_results(resp) ==
    [meal |-> resp.meal, daily |-> resp.daily, progress |-> resp.progress,
     cost |-> resp.cost, sustainability |-> resp.sustainability]

\* the message of a stage, st being the SystemState and resp the responses so far
run_flow_request(stage, st, resp) ==
    CASE stage = "preference" ->
            Request("preference_agent", "preference_update", [profile |-> st.profile])
      [] stage = "goal" ->
            Request("goal_agent", "goal_analysis", [profile |-> st.profile])
      [] stage = "food_knowledge" ->
            Request("food_knowledge_agent", "food_suggestion",
                    [preferences |-> Get(resp.preference, "profile", EmptyDict),
                     targets |-> Get(resp.goal, "targets", EmptyDict)])
      [] stage = "safety" ->
            Request("restriction_safety_agent", "safety_check",
                    [foods |-> run_flow_foods(resp.food_knowledge),
                     user_profile |-> st.profile])
      [] stage = "meal" ->
            Request("meal_analysis_agent", "meal_analysis",
                    IF Truthy(st.plan) THEN st.plan ELSE EmptyDict)
      [] stage = "daily" ->
            Request("daily_nutrition_analysis_agent", "daily_nutrition_analysis",
                    IF Truthy(st.plan) THEN st.plan ELSE EmptyDict)
      [] stage = "progress" ->
            Request("progress_analysis_agent", "progress_analysis",
                    [days |-> Get(resp.daily, "days", EmptyDict),
                     total_calories |-> Get(st.plan, "total_calories", 0)])
      [] stage = "cost" ->
            Request("cost_analysis_agent", "cost_analysis",
                    IF Truthy(st.plan) THEN st.plan ELSE EmptyDict)
      [] stage = "sustainability" ->
            Request("sustainability_analysis_agent", "sustainability_check",
                    IF Truthy(st.plan) THEN st.plan ELSE EmptyDict)
      [] stage = "adaptation" ->
            Request("adaptation_agent", "adaptation_request",
                    [current_plan |-> st.plan, analysis |-> st.analysis_results,
                     safety |-> st.safety_flags])
      [] stage = "emergency" ->
            Request("emergency_risk_agent", "emergency_alert",
                    [user_profile |-> st.profile, health_data |-> EmptyDict])

Event(topic, payload) == [topic |-> topic, payload |-> payload]

run_flow_store_flags_issues(stage, st, resp) ==
    CASE stage = "preference" ->
            [st EXCEPT !.events = Append(@, Event("preference", resp.preference))]
      [] stage = "goal" ->
            [st EXCEPT !.goals = resp.goal, !.events = Append(@, Event("goal", resp.goal))]
      [] stage = "food_knowledge" ->
            [st EXCEPT !.plan = resp.food_knowledge,
                       !.events = Append(@, Event("food_knowledge", resp.food_knowledge))]
      [] stage = "safety" ->
            [st EXCEPT !.safety_flags = Get(resp.safety, "issues", <<>>)
                                            \o Get(resp.safety, "warnings", <<>>),
                       !.events = Append(@, Event("safety", resp.safety))]
      [] stage = "sustainability" ->
            [st EXCEPT !.analysis_results = run_flow_analysis_results(resp),
                       !.events = Append(@, Event("analysis", run_flow_analysis_results(resp)))]
      [] stage = "adaptation" ->
            [st EXCEPT !.events = Append(@, Event("adaptation", resp.adaptation))]
      [] stage = "emergency" ->
            [st EXCEPT !.events = Append(@, Event("emergency", resp.emergency))]
      [] OTHER -> st

\* the assignments to state that follow the send_message of a stage; resp holds
\* the content of that stage's response too
run_flow_store(stage, st, resp) ==
    CASE stage = "preference" ->
            [st EXCEPT !.events = Append(@, Event("preference", resp.preference))]
      [] stage = "goal" ->
            [st EXCEPT !.goals = resp.goal, !.events = Append(@, Event("goal", resp.goal))]
      [] stage = "food_knowledge" ->
            [st EXCEPT !.plan = resp.food_knowledge,
                       !.events = Append(@, Event("food_knowledge", resp.food_knowledge))]
      [] stage = "safety" ->
            [st EXCEPT !.safety_flags = Get(resp.safety, "warnings", <<>>),
                       !.events = Append(@, Event("safety", resp.safety))]
      [] stage = "sustainability" ->
            [st EXCEPT !.analysis_results = run_flow_analysis_results(resp),
                       !.events = Append(@, Event("analysis", run_flow_analysis_results(resp)))]
      [] stage = "adaptation" ->
            [st EXCEPT !.events = Append(@, Event("adaptation", resp.adaptation))]
      [] stage = "emergency" ->
            [st EXCEPT !.events = Append(@, Event("emergency", resp.emergency))]
      [] OTHER -> st

RECURSIVE run_flow_from(_, _, _, _, _)
run_flow_sent_rollback(r, st, resp, i, env) ==
    IF r.exc # "none"
    THEN [ctx |-> r.ctx, exc |-> r.exc, text |-> r.text, value |-> SystemState(st.profile)]
    ELSE run_flow_from(r.ctx,
                       run_flow_store(RunFlowStages[i], st,
                                      (RunFlowStages[i] :> r.value.content) @@ resp),
                       (RunFlowStages[i] :> r.value.content) @@ resp, i + 1, env)

\* run_flow from its i-th stage on. An exception of send_message leaves run_flow
\* at once, state being the object the caller passed, as the stages before left it
run_flow_sent(r, st, resp, i, env) ==
    IF r.exc # "none" THEN [ctx |-> r.ctx, exc |-> r.exc, text |-> r.text, value |-> st]
    ELSE run_flow_from(r.ctx,
                       run_flow_store(RunFlowStages[i], st,
                                      (RunFlowStages[i] :> r.value.content) @@ resp),
                       (RunFlowStages[i] :> r.value.content) @@ resp, i + 1, env)

run_flow_send(ctx, request, st, resp, i, env) ==
    run_flow_sent(Dispatch(ctx, "orchestrator", request.recipient, request.message_type,
                           request.content, env),
                  st, resp, i, env)

run_flow_from(ctx, st, resp, i, env) ==
    IF i > Len(RunFlowStages) THEN Returned(ctx, st)
    ELSE run_flow_send(ctx, run_flow_request(RunFlowStages[i], st, resp), st, resp, i, env)

\* A2ADietitianOrchestrator.run_flow(state)
run_flow(ctx, st, env) == run_flow_from(ctx, st, EmptyDict, 1, env)

-----------------------------------------------------------------------------
(* a2a/langgraph_orchestrator.py: build_ai_dietitian_graph. The graph is a   *)
(* chain of nine nodes; a compiled graph runs them in the order of the edges, *)
(* each node on the state the node before it returned.                       *)

\* the send_message calls of the nodes in the order of the edges; the node
\* analysis_pcs makes those of progress, cost and sustainability
GraphSends ==
    <<"preference", "goal", "food_knowledge", "safety", "meal", "daily", "progress",
      "cost", "sustainability", "adaptation", "emergency">>

\* the message a node builds with system.agents[...].send_message, st being the
\* SystemState the node received
graph_request(stage, st) ==
    CASE stage = "preference" ->
            Request("preference_agent", "preference_update", [profile |-> st.profile])
      [] stage = "goal" ->
            Request("goal_agent", "goal_analysis", [profile |-> st.profile])
      [] stage = "food_knowledge" ->
            Request("food_knowledge_agent", "food_suggestion",
                    [preferences |-> st.profile,
                     targets |-> Get(st.goals, "targets", EmptyDict)])
      [] stage = "safety" ->
            Request("restriction_safety_agent", "safety_check",
                    [foods |-> run_flow_foods(st.plan), user_profile |-> st.profile])
      [] stage = "meal" -> Request("meal_analysis_agent", "meal_analysis", st.plan)
      [] stage = "daily" ->
            Request("daily_nutrition_analysis_agent", "daily_nutrition_analysis", st.plan)
      [] stage = "progress" ->
            Request("progress_analysis_agent", "progress_analysis",
                    [days |-> Get(Get(st.analysis_results, "daily", EmptyDict), "days",
                                  EmptyDict),
                     total_calories |-> Get(st.plan, "total_calories", 0)])
      [] stage = "cost" -> Request("cost_analysis_agent", "cost_analysis", st.plan)
      [] stage = "sustainability" ->
            Request("sustainability_analysis_agent", "sustainability_check", st.plan)
      [] stage = "adaptation" ->
            Request("adaptation_agent", "adaptation_request",
                    [current_plan |-> st.plan, analysis |-> st.analysis_results,
                     safety |-> st.safety_flags])
      [] stage = "emergency" ->
            Request("emergency_risk_agent", "emergency_alert",
                    [user_profile |-> st.profile, health_data |-> EmptyDict])

\* dict.setdefault(key, value)
SetDefault(d, key, value) == IF key \in DOMAIN d THEN d ELSE (key :> value) @@ d

\* state.analysis_results.update({...}) of the node analysis_pcs
graph_analysis_results(st, resp) ==
    Update(st.analysis_results,
           [progress |-> resp.progress, cost |-> resp.cost,
            sustainability |-> resp.sustainability])

\* what a node does to the state after a send_message; resp holds the content of
\* the responses of this run
graph_store(stage, st, resp) ==
    CASE stage = "preference" ->
            [st EXCEPT !.events = Append(@, Event("preference", resp.preference))]
      [] stage = "goal" ->
            [st EXCEPT !.goals = resp.goal, !.events = Append(@, Event("goal", resp.goal))]
      [] stage = "food_knowledge" ->
            [st EXCEPT !.plan = resp.food_knowledge,
                       !.events = Append(@, Event("food_knowledge", resp.food_knowledge))]
      [] stage = "safety" ->
            [st EXCEPT !.safety_flags = Get(resp.safety, "warnings", <<>>),
                       !.events = Append(@, Event("safety", resp.safety))]
      [] stage = "meal" ->
            [st EXCEPT !.analysis_results = SetDefault(@, "meal", resp.meal)]
      [] stage = "daily" ->
            [st EXCEPT !.analysis_results = SetDefault(@, "daily", resp.daily)]
      [] stage = "sustainability" ->
            [st EXCEPT !.analysis_results = graph_analysis_results(st, resp),
                       !.events = Append(@, Event("analysis",
                                                  graph_analysis_results(st, resp)))]
      [] stage = "adaptation" ->
            [st EXCEPT !.events = Append(@, Event("adaptation", resp.adaptation))]
      [] stage = "emergency" ->
            [st EXCEPT !.events = Append(@, Event("emergency", resp.emergency))]
      [] OTHER -> st

\* the nodes from the i-th send_message on; an exception of a node ends the run
RECURSIVE graph_from(_, _, _, _, _)
graph_sent(r, st, resp, i, env) ==
    IF r.exc # "none" THEN [ctx |-> r.ctx, exc |-> r.exc, text |-> r.text, value |-> st]
    ELSE graph_from(r.ctx,
                    graph_store(GraphSends[i], st, (GraphSends[i] :> r.value.content) @@ resp),
                    (GraphSends[i] :> r.value.content) @@ resp, i + 1, env)

\* the sender of a node's message is the agent whose send_message built it
graph_send(ctx, request, st, resp, i, env) ==
    graph_sent(Dispatch(ctx, request.recipient, request.recipient, request.message_type,
                        request.content, env),
               st, resp, i, env)

graph_from(ctx, st, resp, i, env) ==
    IF i > Len(GraphSends) THEN Returned(ctx, st)
    ELSE graph_send(ctx, graph_request(GraphSends[i], st), st, resp, i, env)

\* build_ai_dietitian_graph(system).compile().invoke(state)
graph_invoke(ctx, st, env) == graph_from(ctx, st, EmptyDict, 1, env)



\* the steps of create_comprehensive_plan, one send_message each, in the order of
\* the code
PlanSteps ==
    <<"preference", "goal", "food", "safety", "cultural", "budget", "timing",
      "sustainability", "medical", "emergency", "feedback", "adaptation", "motivation">>

\* the key of flow["results"] a step stores its response under; the preference
\* step stores none
PlanResultKey ==
    [goal |-> "nutritional_blueprint", food |-> "food_suggestions",
     safety |-> "safety_check", cultural |-> "cultural_adaptations",
     budget |-> "budget_check", timing |-> "meal_timing",
     sustainability |-> "sustainability_check", medical |-> "medical_analysis",
     emergency |-> "emergency_check", feedback |-> "feedback_analysis",
     adaptation |-> "adaptations", motivation |-> "motivation"]

\* the keys of the summary a successful plan returns
PlanSummaryKeys ==
    {"nutritional_blueprint", "food_suggestions", "safety_check", "cultural_adaptations",
     "budget_check", "meal_timing", "sustainability_check", "emergency_check", "motivation"}

\* the arguments of one call, with the clock and conversation_flows at the call;
\* user_profile is user_profile.__dict__, the attributes of the object
PlanCall(user_profile, health_data, feedback, env, t, flows) ==
    [user_profile |-> user_profile, health_data |-> health_data, feedback |-> feedback,
     env |-> env, now |-> t, flows |-> flows]

\* flow["results"] of the n-th flow record, the dict itself and not a copy
FlowResultsRef(n) == [flow_results_ref |-> n]

\* the flow record create_comprehensive_plan starts with
NewFlow(call) ==
    [flow_id |-> <<"flow_", call.now>>,
     user_profile |-> call.user_profile,
     health_data |-> IF Truthy(call.health_data) THEN call.health_data ELSE EmptyDict,
     feedback |-> IF Truthy(call.feedback) THEN call.feedback ELSE EmptyDict,
     messages |-> <<>>,
     results |-> EmptyDict]

\* str(KeyError(key)) and str() of the AttributeError of a missing attribute
KeyErrorText(key) == <<"'", key, "'">>

AttributeErrorText(name) == <<"'UserProfile' object has no attribute '", name, "'">>

NoError == [exc |-> "none", text |-> <<>>]

Error(exc, text) == [exc |-> exc, text |-> text]

\* the loop of step 4 over food_response.content["suggestions"]
plan_ingredients(suggestions) ==
    LET keys == KeysInOrder(suggestions, MealKeys)
        meals == Flatten([k \in 1..Len(keys) |-> suggestions[keys[k]]])
    IN  Flatten([m \in 1..Len(meals) |-> Get(meals[m], "ingredients", <<>>)])

plan_foods_to_check(suggestions) ==
    [i \in 1..Len(plan_ingredients(suggestions)) |-> plan_ingredients(suggestions)[i].name]

\* a step the call skips: `if health_data:` and `if feedback:`
plan_step_skipped(step, call) ==
    \/ step = "medical" /\ ~Truthy(call.health_data)
    \/ step \in {"feedback", "adaptation"} /\ ~Truthy(call.feedback)

\* the exception a step raises while it builds its message, before any send
plan_step_error(step, call, resp) ==
    CASE step = "food" ->
            IF "profile" \notin DOMAIN resp.preference
            THEN Error("KeyError", KeyErrorText("profile"))
            ELSE IF "targets" \notin DOMAIN resp.goal
            THEN Error("KeyError", KeyErrorText("targets"))
            ELSE NoError
      [] step = "safety" ->
            IF "suggestions" \notin DOMAIN resp.food
            THEN Error("KeyError", KeyErrorText("suggestions"))
            ELSE IF \E i \in DOMAIN plan_ingredients(resp.food.suggestions) :
                        "name" \notin DOMAIN plan_ingredients(resp.food.suggestions)[i]
            THEN Error("KeyError", KeyErrorText("name"))
            ELSE NoError
      [] step = "cultural" ->
            IF ~HasAttr(call.user_profile, "cuisine_preferences")
            THEN Error("AttributeError", AttributeErrorText("cuisine_preferences"))
            ELSE NoError
      [] step = "timing" ->
            IF ~HasAttr(call.user_profile, "work_schedule_notes")
            THEN Error("AttributeError", AttributeErrorText("work_schedule_notes"))
            ELSE NoError
      [] OTHER -> NoError

\* the message of a step, resp mapping each earlier step to its response's content
plan_request(step, call, resp) ==
    CASE step = "preference" ->
            Request("preference_agent", "preference_update", call.user_profile)
      [] step = "goal" ->
            Request("goal_agent", "goal_analysis", [profile |-> call.user_profile])
      [] step = "food" ->
            Request("food_knowledge_agent", "food_suggestion",
                    [preferences |-> resp.preference.profile, targets |-> resp.goal.targets])
      [] step = "safety" ->
            Request("restriction_safety_agent", "safety_check",
                    [foods |-> plan_foods_to_check(resp.food.suggestions),
                     user_profile |-> call.user_profile])
      [] step = "cultural" ->
            Request("cultural_lifestyle_agent", "cultural_adaptation",
                    [cuisine_preference |->
                        IF Len(call.user_profile.cuisine_preferences) > 0
                        THEN call.user_profile.cuisine_preferences[1] ELSE "",
                     dietary_preferences |-> call.user_profile.dietary_preferences,
                     suggestions |-> resp.food.suggestions])
      [] step = "budget" ->
            Request("budget_accessibility_agent", "budget_check",
                    [budget_level |-> call.user_profile.budget_level,
                     foods |-> plan_foods_to_check(resp.food.suggestions)])
      [] step = "timing" ->
            Request("meal_timing_agent", "timing_suggestion",
                    [schedule |->
                        [training_days |-> call.user_profile.training_days,
                         work_schedule |->
                             [notes |-> call.user_profile.work_schedule_notes]]])
      [] step = "sustainability" ->
            Request("sustainability_agent", "sustainability_check",
                    [foods |-> plan_foods_to_check(resp.food.suggestions)])
      [] step = "medical" ->
            Request("medical_biomarker_agent", "medical_alert",
                    [biomarkers |-> call.health_data])
      [] step = "emergency" ->
            Request("emergency_risk_agent", "emergency_alert",
                    [health_data |-> IF Truthy(call.health_data) THEN call.health_data
                                     ELSE EmptyDict,
                     user_profile |-> call.user_profile])
      [] step = "feedback" ->
            Request("feedback_learning_agent", "feedback_processing",
                    [feedback |-> call.feedback,
                     user_id |-> IF call.user_profile.name = "" THEN "user"
                                 ELSE call.user_profile.name])
      [] step = "adaptation" ->
            Request("adaptation_agent", "adaptation_request",
                    [feedback |-> call.feedback,
                     current_plan |-> FlowResultsRef(Len(call.flows) + 1)])
      [] step = "motivation" ->
            Request("motivation_education_agent", "motivation_message",
                    [context |-> "comprehensive_plan_created",
                     progress |-> IF Truthy(call.feedback)
                                  THEN Get(call.feedback, "progress", EmptyDict)
                                  ELSE EmptyDict])


\* what create_comprehensive_plan hands back: it raises nothing; the value it
\* returns comes with conversation_flows as the call leaves it
PlanReturned(ctx, value, flows) ==
    [ctx |-> ctx, exc |-> "none", text |-> <<>>, value |-> value,
     conversation_flows |-> flows]

\* flow["messages"].append(response.to_dict()); flow["results"][key] = response.content
plan_store(step, flow, response) ==
    [flow EXCEPT !.messages = Append(@, to_dict(response)),
                 !.results = IF step \in DOMAIN PlanResultKey
                             THEN (PlanResultKey[step] :> response.content) @@ @
                             ELSE @]

plan_failed_unrecorded(ctx, flow, text, call) ==
    PlanReturned(ctx,
                 [flow_id |-> flow.flow_id, status |-> "error", error |-> text,
                  agent_status |-> get_agent_status(ctx)],
                 call.flows)

\* the `except Exception as e` branch, text being str(e)
plan_failed(ctx, flow, text, call) ==
    PlanReturned(ctx,
                 [flow_id |-> flow.flow_id, status |-> "error", error |-> text,
                  agent_status |-> get_agent_status(ctx)],
                 Append(call.flows, [error |-> text] @@ flow))

\* the end of the try block: every key of the summary was stored by a step that
\* no call skips
plan_succeeded(ctx, flow, call) ==
    PlanReturned(ctx,
                 [flow_id |-> flow.flow_id, status |-> "success",
                  summary |-> [k \in PlanSummaryKeys |-> flow.results[k]],
                  agent_status |-> get_agent_status(ctx)],
                 Append(call.flows, flow))

\* create_comprehensive_plan from its i-th step on; an exception of a step ends
\* the try block
RECURSIVE plan_from(_, _, _, _, _)
plan_sent(r, flow, resp, i, call) ==
    IF r.exc # "none" THEN plan_failed(r.ctx, flow, r.text, call)
    ELSE plan_from(r.ctx, plan_store(PlanSteps[i], flow, r.value),
                   (PlanSteps[i] :> r.value.content) @@ resp, i + 1, call)

plan_send(ctx, request, flow, resp, i, call) ==
    plan_sent(Dispatch(ctx, "orchestrator", request.recipient, request.message_type,
                       request.content, call.env),
              flow, resp, i, call)

plan_try(ctx, error, flow, resp, i, call) ==
    IF error.exc # "none" THEN plan_failed(ctx, flow, error.text, call)
    ELSE plan_send(ctx, plan_request(PlanSteps[i], call, resp), flow, resp, i, call)

plan_from(ctx, flow, resp, i, call) ==
    IF i > Len(PlanSteps) THEN plan_succeeded(ctx, flow, call)
    ELSE IF plan_step_skipped(PlanSteps[i], call)
    THEN plan_from(ctx, flow, resp, i + 1, call)
    ELSE plan_try(ctx, plan_step_error(PlanSteps[i], call, resp), flow, resp, i, call)

\* A2ADietitianOrchestrator.create_comprehensive_plan
create_comprehensive_plan(ctx, call) == plan_from(ctx, NewFlow(call), EmptyDict, 1, call)

\* _generate_agent_only_plan
generate_agent_only_plan(ctx, call) == create_comprehensive_plan(ctx, call)

\* get_conversation_history(flow_id), "" standing for no flow_id
get_conversation_history(flows, flow_id) ==
    IF Len(flow_id) > 0 THEN SelectSeq(flows, LAMBDA flow : flow.flow_id = flow_id)
    ELSE flows


-----------------------------------------------------------------------------
(* json.loads, for documents made of objects, arrays, strings without escapes, *)
(* unsigned integers, true, false and null. A value is tagged with its Python  *)
(* type: dict, list, str, int, bool, NoneType.                                 *)

Json(kind, value) == [kind |-> kind, value |-> value]

\* the result of parsing from a position: the value and the position after it
Parsed(json, pos) == [ok |-> TRUE, json |-> json, pos |-> pos]

NotParsed == [ok |-> FALSE, json |-> Json("NoneType", "None"), pos |-> 0]

JsonWhitespace == " \n\t\r"

RECURSIVE SkipWhitespace(_, _)
SkipWhitespace(s, i) ==
    IF i <= Len(s) /\ Contains(Char(s, i), JsonWhitespace) THEN SkipWhitespace(s, i + 1)
    ELSE i

\* the first position from i on that holds no digit
RECURSIVE SkipDigits(_, _)
SkipDigits(s, i) ==
    IF i <= Len(s) /\ Contains(Char(s, i), Digits) THEN SkipDigits(s, i + 1) ELSE i

\* the first position from i on that holds a double quote, Len(s) + 1 if none does
RECURSIVE FindQuote(_, _)
FindQuote(s, i) ==
    IF i <= Len(s) /\ Char(s, i) # "\"" THEN FindQuote(s, i + 1) ELSE i

StartsWith(s, i, word) ==
    i + Len(word) - 1 <= Len(s) /\ SubSeq(s, i, i + Len(word) - 1) = word

JsonString(s, i, close) ==
    IF close > Len(s) THEN NotParsed
    ELSE Parsed(Json("str", SubSeq(s, i + 1, close - 1)), close + 1)

JsonNumber(s, i, end) == Parsed(Json("int", DigitsValue(SubSeq(s, i, end - 1))), end)

RECURSIVE JsonValue(_, _)
RECURSIVE JsonElements(_, _, _)
RECURSIVE JsonMembers(_, _, _)

\* after an element of an array: a comma and the next element, or the bracket
JsonAfterElement(s, p, items) ==
    IF ~p.ok THEN NotParsed
    ELSE IF StartsWith(s, SkipWhitespace(s, p.pos), ",")
    THEN JsonElements(s, SkipWhitespace(s, p.pos) + 1, Append(items, p.json))
    ELSE IF StartsWith(s, SkipWhitespace(s, p.pos), "]")
    THEN Parsed(Json("list", Append(items, p.json)), SkipWhitespace(s, p.pos) + 1)
    ELSE NotParsed

JsonElements(s, i, items) == JsonAfterElement(s, JsonValue(s, i), items)

\* after a member of an object, key being its name
JsonAfterMember(s, key, p, members) ==
    IF ~p.ok THEN NotParsed
    ELSE IF StartsWith(s, SkipWhitespace(s, p.pos), ",")
    THEN JsonMembers(s, SkipWhitespace(s, SkipWhitespace(s, p.pos) + 1),
                     (key :> p.json) @@ members)
    ELSE IF StartsWith(s, SkipWhitespace(s, p.pos), "}")
    THEN Parsed(Json("dict", (key :> p.json) @@ members), SkipWhitespace(s, p.pos) + 1)
    ELSE NotParsed

\* a member from its name on: the name, a colon and the value
JsonMember(s, k, members) ==
    IF ~k.ok \/ ~StartsWith(s, SkipWhitespace(s, k.pos), ":") THEN NotParsed
    ELSE JsonAfterMember(s, k.json.value,
                         JsonValue(s, SkipWhitespace(s, k.pos) + 1), members)

JsonMembers(s, i, members) ==
    IF ~StartsWith(s, i, "\"") THEN NotParsed
    ELSE JsonMember(s, JsonString(s, i, FindQuote(s, i + 1)), members)

JsonAt(s, i) ==
    IF i > Len(s) THEN NotParsed
    ELSE IF StartsWith(s, i, "{")
    THEN IF StartsWith(s, SkipWhitespace(s, i + 1), "}")
         THEN Parsed(Json("dict", EmptyDict), SkipWhitespace(s, i + 1) + 1)
         ELSE JsonMembers(s, SkipWhitespace(s, i + 1), EmptyDict)
    ELSE IF StartsWith(s, i, "[")
    THEN IF StartsWith(s, SkipWhitespace(s, i + 1), "]")
         THEN Parsed(Json("list", <<>>), SkipWhitespace(s, i + 1) + 1)
         ELSE JsonElements(s, i + 1, <<>>)
    ELSE IF StartsWith(s, i, "\"") THEN JsonString(s, i, FindQuote(s, i + 1))
    ELSE IF Contains(Char(s, i), Digits) THEN JsonNumber(s, i, SkipDigits(s, i))
    ELSE IF StartsWith(s, i, "true") THEN Parsed(Json("bool", TRUE), i + 4)
    ELSE IF StartsWith(s, i, "false") THEN Parsed(Json("bool", FALSE), i + 5)
    ELSE IF StartsWith(s, i, "null") THEN Parsed(Json("NoneType", "None"), i + 4)
    ELSE NotParsed

JsonValue(s, i) == JsonAt(s, SkipWhitespace(s, i))

\* the whole document: one value and nothing but whitespace after it
JsonDocument(s, p) ==
    IF p.ok /\ SkipWhitespace(s, p.pos) > Len(s)
    THEN [exc |-> "none", value |-> p.json]
    ELSE [exc |-> "JSONDecodeError", value |-> Json("NoneType", "None")]

json_loads(s) == JsonDocument(s, JsonValue(s, 1))


-----------------------------------------------------------------------------
(* a2a/orchestrator.py: the plan made with the LLM *)

\* sep.join(items), halving the list
RECURSIVE Join(_, _)
Join(sep, items) ==
    IF Len(items) = 0 THEN ""
    ELSE IF Len(items) = 1 THEN items[1]
    ELSE Join(sep, SubSeq(items, 1, Len(items) \div 2)) \o sep
             \o Join(sep, SubSeq(items, Len(items) \div 2 + 1, Len(items)))

\* the attributes of user_profile the prompt reads, in the order it reads them
PromptAttributes ==
    <<"name", "age", "gender", "height_cm", "weight_kg", "activity_level", "goal_type",
      "dietary_preferences", "allergies", "intolerances", "disliked_foods",
      "cuisine_preference", "budget_level", "cooking_skill", "country">>

\* the values the prompt of _generate_llm_plan is formatted from
generate_llm_prompt(call) ==
    [i \in 1..Len(PromptAttributes) |->
        IF PromptAttributes[i] \in
               {"dietary_preferences", "allergies", "intolerances", "disliked_foods"}
        THEN Join(", ", call.user_profile[PromptAttributes[i]])
        ELSE call.user_profile[PromptAttributes[i]]]
    \o <<IF Truthy(call.health_data) THEN call.health_data ELSE "None provided",
         IF Truthy(call.feedback) THEN call.feedback ELSE "None provided">>

\* what self.llm.generate_text(prompt) does: it raises, or it returns a text
Generated(text) == [exc |-> "none", text |-> <<>>, value |-> text]

GenerateFailed(exc, text) == [exc |-> exc, text |-> text, value |-> ""]

\* _generate_llm_plan, generated being what generate_text does with the prompt: an
\* attribute the prompt misses raises, an exception of generate_text becomes a dict
generate_llm_plan(call, generated) ==
    IF \E i \in DOMAIN PromptAttributes : ~HasAttr(call.user_profile, PromptAttributes[i])
    THEN [exc |-> "AttributeError",
          text |-> AttributeErrorText(
                       PromptAttributes[CHOOSE i \in DOMAIN PromptAttributes :
                           /\ ~HasAttr(call.user_profile, PromptAttributes[i])
                           /\ \A j \in 1..(i - 1) :
                                  HasAttr(call.user_profile, PromptAttributes[j])]),
          value |-> Json("NoneType", "None")]
    ELSE IF generated.exc # "none"
    THEN [exc |-> "none", text |-> <<>>,
          value |-> Json("dict", [error |-> <<"LLM generation failed: ", generated.text>>,
                                  status |-> "error"])]
    ELSE IF json_loads(generated.value).exc = "none"
    THEN [exc |-> "none", text |-> <<>>, value |-> json_loads(generated.value).value]
    ELSE [exc |-> "none", text |-> <<>>,
          value |-> Json("dict", [llm_response |-> generated.value,
                                  status |-> "text_format"])]

\* _enhance_plan_with_agents: llm_plan.copy() and the two item assignments
enhance_plan_with_agents(llm_plan) ==
    IF llm_plan.kind = "dict"
    THEN [exc |-> "none", text |-> <<>>,
          value |-> (("status" :> "enhanced")
                     @@ ("agent_enhancements" :> "Plan enhanced by AI agents")
                     @@ llm_plan.value)]
    ELSE IF llm_plan.kind = "list"
    THEN [exc |-> "TypeError",
          text |-> <<"list indices must be integers or slices, not str">>,
          value |-> EmptyDict]
    ELSE [exc |-> "AttributeError",
          text |-> <<"'", llm_plan.kind, "' object has no attribute 'copy'">>,
          value |-> EmptyDict]

\* the try block of generate_comprehensive_plan, llm_plan being what
\* _generate_llm_plan returned or raised
generate_enhanced_plan(llm_plan) ==
    IF llm_plan.exc # "none" THEN [exc |-> llm_plan.exc, text |-> llm_plan.text,
                                   value |-> EmptyDict]
    ELSE enhance_plan_with_agents(llm_plan.value)

\* the end of generate_comprehensive_plan: the enhanced plan when there is an LLM
\* and the try block raised nothing, and _generate_agent_only_plan otherwise
generate_finish(ctx, with_llm, enhanced, call) ==
    IF with_llm /\ enhanced.exc = "none"
    THEN PlanReturned(ctx, enhanced.value, call.flows)
    ELSE generate_agent_only_plan(ctx, call)

\* A2ADietitianOrchestrator.generate_comprehensive_plan
generate_comprehensive_plan(ctx, with_llm, generated, call) ==
    generate_finish(ctx, with_llm, generate_enhanced_plan(generate_llm_plan(call, generated)),
                    call)


-----------------------------------------------------------------------------
(* Spec: an A2ADietitianOrchestrator, with or without an LLM, on which       *)
(* callers run flows and ask for plans                                       *)

\* a UserProfile object that was given the two attributes steps 5 and 7 of
\* create_comprehensive_plan read and the dataclass does not declare
ExtendedProfile ==
    [cuisine_preferences |-> <<"indian">>, work_schedule_notes |-> "night shifts"]
        @@ CompleteProfile

HealthData == [blood_sugar |-> Num(Float(130)), weight_loss_rate |-> Text("2.5")]

Feedback == [weight_plateau |-> TRUE, comment |-> "too bland", progress |-> EmptyDict]

\* user_profile, health_data and feedback of the plans callers ask for
PlanInputs ==
    << <<CompleteProfile, EmptyDict, EmptyDict>>,
       <<VegetarianProfile, HealthData, Feedback>>,
       <<ExtendedProfile, HealthData, EmptyDict>> >>

\* the profile dicts of the SystemState objects callers run a flow on
FlowProfiles == <<CompleteProfile, VegetarianProfile, PartialProfile>>

\* what generate_text does when it is called
GenerateTexts ==
    <<GenerateFailed("RuntimeError", <<"model unavailable">>),
      Generated("Here is your plan: eat well."),
      Generated("{\"meals\": [1, 2], \"notes\": \"light\"}"),
      Generated("[1, 2]")>>

Init ==
    /\ agents = DietitianOrchestrator.agents
    /\ message_queue = DietitianOrchestrator.message_queue
    /\ conversation_history = DietitianOrchestrator.conversation_history
    /\ memory = DietitianOrchestrator.memory
    /\ message_history = DietitianOrchestrator.message_history
    /\ next_id = DietitianOrchestrator.next_id
    /\ state = SystemState(EmptyDict)
    /\ conversation_flows = <<>>
    /\ llm \in BOOLEAN
    /\ now = 0
    /\ calls = 0
    /\ outcome = Outcome("__init__", <<>>, "none", <<>>, EmptyDict)

\* run_flow(SystemState(profile=profile)): the caller's state object is what the
\* stages left of it, whether run_flow returned or raised
RunFlowDone(r, profile) ==
    /\ Leave(r.ctx)
    /\ state' = r.value
    /\ outcome' = Outcome("run_flow", <<profile>>, r.exc, r.text,
                          IF r.exc = "none" THEN r.value ELSE EmptyDict)

RunFlow(profile, env) ==
    /\ calls < MaxCalls
    /\ calls' = calls + 1
    /\ RunFlowDone(run_flow(Ctx, SystemState(profile), env), profile)
    /\ UNCHANGED <<conversation_flows, llm, now>>

PlanDone(op, args, r) ==
    /\ Done(op, args, r)
    /\ conversation_flows' = r.conversation_flows

CreateComprehensivePlan(user_profile, health_data, feedback, env) ==
    /\ calls < MaxCalls
    /\ calls' = calls + 1
    /\ PlanDone("create_comprehensive_plan", <<user_profile, health_data, feedback>>,
                create_comprehensive_plan(
                    Ctx, PlanCall(user_profile, health_data, feedback, env, now,
                                  conversation_flows)))
    /\ UNCHANGED <<state, llm, now>>

GenerateComprehensivePlan(user_profile, health_data, feedback, generated, env) ==
    /\ calls < MaxCalls
    /\ calls' = calls + 1
    /\ PlanDone("generate_comprehensive_plan",
                <<user_profile, health_data, feedback,
                  IF llm THEN <<generated.exc, generated.value>> ELSE <<>> >>,
                generate_comprehensive_plan(
                    Ctx, llm, generated,
                    PlanCall(user_profile, health_data, feedback, env, now,
                             conversation_flows)))
    /\ UNCHANGED <<state, llm, now>>

\* a second of the wall clock passes; the clock is read to name the flows only,
\* so it is let run no further than the number of flows recorded
Tick ==
    /\ now < Len(conversation_flows)
    /\ now' = now + 1
    /\ UNCHANGED <<agents, message_queue, conversation_history, memory, message_history,
                   next_id, state, conversation_flows, llm, calls, outcome>>

\* the plans callers ask generate_comprehensive_plan for: the inputs of the plan
\* and what generate_text does
GenerateCalls ==
    << <<PlanInputs[1], GenerateTexts[1]>>, <<PlanInputs[1], GenerateTexts[2]>>,
       <<PlanInputs[2], GenerateTexts[3]>>, <<PlanInputs[3], GenerateTexts[4]>>,
       <<PlanInputs[2], GenerateTexts[1]>> >>

\* random choice, weekday and month while the pipelines run; no agent either
\* pipeline reaches reads them
PipelineEnv == Envs[1]

\* the dashboard asks for the insights and the status of the agents
GetAgentInsights ==
    /\ calls < MaxCalls
    /\ calls' = calls + 1
    /\ Done("get_agent_insights", <<>>, get_agent_insights(Ctx))
    /\ UNCHANGED <<state, conversation_flows, llm, now>>

GetAgentStatus ==
    /\ calls < MaxCalls
    /\ calls' = calls + 1
    /\ Done("get_agent_status", <<>>, Returned(Ctx, get_agent_status(Ctx)))
    /\ UNCHANGED <<state, conversation_flows, llm, now>>

Next ==
    \/ \E p \in DOMAIN FlowProfiles : RunFlow(FlowProfiles[p], PipelineEnv)
    \/ GetAgentInsights
    \/ GetAgentStatus
    \/ \E i \in DOMAIN PlanInputs :
            CreateComprehensivePlan(PlanInputs[i][1], PlanInputs[i][2], PlanInputs[i][3],
                                    PipelineEnv)
    \/ \E c \in DOMAIN GenerateCalls :
            GenerateComprehensivePlan(GenerateCalls[c][1][1], GenerateCalls[c][1][2],
                                      GenerateCalls[c][1][3], GenerateCalls[c][2],
                                      PipelineEnv)
    \/ Tick

Spec == Init /\ [][Next]_vars


-----------------------------------------------------------------------------
(* Properties of the two pipelines, under Spec *)

\* the step is a call of op, answered in outcome'
Asked(op) == calls' = calls + 1 /\ outcome'.op = op

\* the messages a step appended to message_history, requests at the odd places
\* and the response to each right after it
Sent == SubSeq(message_history', Len(message_history) + 1, Len(message_history'))

Last(s) == s[Len(s)]

\* the recipients of run_flow in the order the flow is documented to address them
RunFlowRecipients ==
    <<"preference_agent", "goal_agent", "food_knowledge_agent", "restriction_safety_agent",
      "meal_analysis_agent", "daily_nutrition_analysis_agent", "progress_analysis_agent",
      "cost_analysis_agent", "sustainability_analysis_agent", "adaptation_agent",
      "emergency_risk_agent">>

\* C4: a run_flow that returns has dispatched to its eleven recipients in the
\* fixed order, each exactly once; the progress request carries the days the
\* daily aggregation returned, and the adaptation request carries the
\* analysis_results that hold the five analyses.
C4_FlowOrder ==
    [][(Asked("run_flow") /\ outcome'.exc = "none")
          => /\ Len(Sent) = 2 * Len(RunFlowRecipients)
             /\ \A i \in 1..Len(RunFlowRecipients) :
                   /\ Sent[2 * i - 1].recipient = RunFlowRecipients[i]
                   /\ Sent[2 * i].sender = RunFlowRecipients[i]
             /\ Sent[13].content.days = Sent[12].content.days
             /\ state'.analysis_results =
                   [meal |-> Sent[10].content, daily |-> Sent[12].content,
                    progress |-> Sent[14].content, cost |-> Sent[16].content,
                    sustainability |-> Sent[18].content]
             /\ Sent[19].content.analysis = state'.analysis_results]_vars

C4_Witness ==
    /\ outcome.op = "run_flow"
    /\ outcome.exc = "none"
    /\ Len(message_history) >= 2 * Len(RunFlowRecipients)
    /\ DOMAIN state.analysis_results = {"meal", "daily", "progress", "cost", "sustainability"}

\* C5: when a handler raises during run_flow the exception reaches the caller,
\* the stages dispatched are a proper prefix of the order with none repeated,
\* and the state keeps what the completed stages wrote: their events, goals,
\* plan and safety_flags, message_history keeping their requests and responses.
C5_FailurePropagates ==
    [][(Asked("run_flow") /\ outcome'.exc # "none")
          => /\ Len(Sent) % 2 = 0
             /\ Len(Sent) < 2 * Len(RunFlowRecipients)
             /\ SubSeq(message_history', 1, Len(message_history)) = message_history
             /\ \A i \in 1..(Len(Sent) \div 2) :
                   /\ Sent[2 * i - 1].recipient = RunFlowRecipients[i]
                   /\ Sent[2 * i].sender = RunFlowRecipients[i]
             /\ Len(Sent) \div 2 <= 4
                   => /\ Len(state'.events) = Len(Sent) \div 2
                      /\ \A i \in 1..(Len(Sent) \div 2) :
                            state'.events[i].payload = Sent[2 * i].content
                      /\ state'.goals = IF Len(Sent) >= 4 THEN Sent[4].content ELSE EmptyDict
                      /\ state'.plan = IF Len(Sent) >= 6 THEN Sent[6].content ELSE EmptyDict
                      /\ Len(Sent) < 8 => Len(state'.safety_flags) = 0]_vars

C5_Witness ==
    /\ outcome.op = "run_flow"
    /\ outcome.exc = "TypeError"
    /\ Len(state.events) = 1
    /\ state.events[1].topic = "preference"
    /\ Len(message_history) > 0

\* C6: create_comprehensive_plan raises nothing and returns status 'success' or
\* 'error'; each call appends exactly one flow record; on error the record holds
\* the error text of the result and the responses of the dispatches that
\* completed, in order.
C6_PlanNeverRaises ==
    [][Asked("create_comprehensive_plan")
          => /\ outcome'.exc = "none"
             /\ outcome'.value.status \in {"success", "error"}
             /\ Len(conversation_flows') = Len(conversation_flows) + 1
             /\ SubSeq(conversation_flows', 1, Len(conversation_flows)) = conversation_flows
             /\ outcome'.value.status = "error"
                   => /\ Last(conversation_flows').error = outcome'.value.error
                      /\ Last(conversation_flows').messages =
                            [i \in 1..(Len(Sent) \div 2) |-> to_dict(Sent[2 * i])]]_vars

C6_Witness ==
    /\ outcome.op = "create_comprehensive_plan"
    /\ outcome.value.status = "error"
    /\ Len(conversation_flows) = 2
    /\ Len(Last(conversation_flows).messages) = 3

\* C7: on a freshly constructed orchestrator, create_comprehensive_plan with a
\* complete UserProfile and neither health data nor feedback returns status
\* 'success' and a summary with the nine result keys.
C7_FreshPlanSucceeds ==
    [][(/\ Asked("create_comprehensive_plan")
        /\ Len(message_history) = 0
        /\ Len(conversation_flows) = 0
        /\ outcome'.args = <<CompleteProfile, EmptyDict, EmptyDict>>)
          => /\ outcome'.value.status = "success"
             /\ DOMAIN outcome'.value.summary = PlanSummaryKeys]_vars

\* the plan of a complete profile on a fresh orchestrator: step 4 reads
\* food_response.content["suggestions"], which the food agent does not return
C7_FreshPlanFailed ==
    /\ outcome.op = "create_comprehensive_plan"
    /\ outcome.args = <<CompleteProfile, EmptyDict, EmptyDict>>
    /\ Len(conversation_flows) = 1
    /\ outcome.value.status = "error"
    /\ outcome.value.error = KeyErrorText("suggestions")

\* C8: with an LLM configured, whenever generate_text raises,
\* generate_comprehensive_plan returns what create_comprehensive_plan returns:
\* a result with flow_id and status 'success' or 'error', its flow recorded.
C8_FallsBackOnFailure ==
    [][(/\ Asked("generate_comprehensive_plan")
        /\ llm
        /\ outcome'.args[4][1] # "none")
          => /\ "flow_id" \in DOMAIN outcome'.value
             /\ outcome'.value.status \in {"success", "error"}
             /\ Len(conversation_flows') = Len(conversation_flows) + 1]_vars

\* the plan returned when generate_text raised: the error record of
\* _generate_llm_plan, enhanced, and no flow
C8_NoFallback ==
    /\ outcome.op = "generate_comprehensive_plan"
    /\ llm
    /\ outcome.args[4][1] = "RuntimeError"
    /\ outcome.value.status = "enhanced"
    /\ "error" \in DOMAIN outcome.value
    /\ "flow_id" \notin DOMAIN outcome.value


-----------------------------------------------------------------------------
(* SpecAgents: the agents of a new A2ADietitianOrchestrator, each sent        *)
(* messages of every type                                                     *)

\* how many messages callers send to the agents
MaxAgentCalls == 1

\* a measurement in tenths
Tenths(n) == Num(Float(n) \div 10)

\* the foods and the profile of the SAFETY_CHECK requests
SafetyRequests ==
    << [foods |-> <<"almonds">>, user_profile |-> [allergies |-> <<"nuts">>]],
       [foods |-> <<"Peanut Butter", "oats">>, user_profile |-> [allergies |-> <<"Peanut">>]],
       [foods |-> <<"grapefruit juice">>,
        user_profile |-> [allergies |-> <<>>, medications |-> <<"Statins">>]] >>

\* the food lists of the SUSTAINABILITY_CHECK and BUDGET_CHECK requests
FoodLists ==
    << <<"beef", "lentils">>, <<"Beef burger">>, <<"chicken", "tofu">>, <<"berries">>,
       <<"cheese pumpkin pie", "rice">>, <<"chicken cheese wrap">>, <<"lentils with eggs">>,
       <<"grilled salmon">>, <<"salmon", "brown rice", "oats">>, <<"Quinoa", "almonds">>,
       <<"chicken", "banana", "apple">>, <<"avocado toast", "quinoa salad">> >>

\* the health_data of the EMERGENCY_ALERT requests
HealthRecords ==
    << [weight_loss_rate |-> Tenths(5)], [weight_loss_rate |-> Tenths(10)],
       [weight_loss_rate |-> Tenths(15)], [weight_loss_rate |-> Tenths(20)],
       [weight_loss_rate |-> Tenths(25)], [weight_loss_rate |-> Text("2.5")],
       [weight_loss_rate |-> Text("fast")],
       [bmi |-> Tenths(180)], [bmi |-> Tenths(185)], [bmi |-> Tenths(250)],
       [bmi |-> Tenths(300)], [bmi |-> Tenths(305)], [bmi |-> Text("n/a")],
       [blood_pressure |-> Tenths(850)], [blood_pressure |-> Tenths(900)],
       [blood_pressure |-> Tenths(1200)], [blood_pressure |-> Tenths(1400)],
       [blood_pressure |-> Tenths(1450)], [blood_pressure |-> Text("120/80")],
       [fatigue_level |-> "extreme"], [fatigue_level |-> "severe"],
       [fatigue_level |-> "mild"],
       [weight_loss_rate |-> Text("fast"), bmi |-> Tenths(305), fatigue_level |-> "severe"],
       [weight_loss_rate |-> Tenths(25), bmi |-> Text("n/a"),
        blood_pressure |-> Tenths(850)],
       [weight_loss_rate |-> Tenths(15), bmi |-> Tenths(180),
        blood_pressure |-> Text("120/80")] >>

\* the biomarkers of the MEDICAL_ALERT requests
BiomarkerRecords ==
    << HealthData,
       [blood_sugar |-> Text("high"), cholesterol |-> Tenths(2500),
        vitamin_d |-> Tenths(200)],
       [blood_sugar |-> Tenths(1300), cholesterol |-> Text("?"), vitamin_d |-> Tenths(200)],
       [blood_sugar |-> Tenths(1300), cholesterol |-> Tenths(2500),
        vitamin_d |-> Text("low")],
       [blood_sugar |-> Tenths(1250), cholesterol |-> Tenths(2000),
        vitamin_d |-> Tenths(300)] >>

\* recipient, message type and content of the messages that carry a content
AgentRequests ==
    << <<"preference_agent", "preference_update", [profile |-> CompleteProfile]>>,
       <<"preference_agent", "request", [profile |-> CompleteProfile]>>,
       <<"goal_agent", "goal_analysis", [profile |-> CompleteProfile]>>,
       <<"goal_agent", "goal_analysis", [profile |-> PartialProfile]>>,
       <<"goal_agent", "notification", [profile |-> PartialProfile]>>,
       <<"food_knowledge_agent", "food_suggestion", [preferences |-> VegetarianProfile]>>,
       <<"restriction_safety_agent", "safety_check", [foods |-> <<"Peanut butter">>]>>,
       <<"budget_accessibility_agent", "budget_check", [budget_level |-> "low"]>>,
       <<"feedback_learning_agent", "feedback_processing", [feedback |-> Feedback]>>,
       <<"progress_analysis_agent", "progress_analysis",
         [total_calories |-> Float(2000)]>> >>
    \o [i \in DOMAIN SafetyRequests |->
            <<"restriction_safety_agent", "safety_check", SafetyRequests[i]>>]
    \o [i \in DOMAIN FoodLists |->
            <<"sustainability_agent", "sustainability_check", [foods |-> FoodLists[i]]>>]
    \o [i \in DOMAIN FoodLists |->
            <<"budget_accessibility_agent", "budget_check",
              [budget_level |-> "low", foods |-> FoodLists[i]]>>]
    \o [i \in DOMAIN HealthRecords |->
            <<"emergency_risk_agent", "emergency_alert",
              [health_data |-> HealthRecords[i],
               user_profile |-> [name |-> "Test User", medications |-> <<"Warfarin">>]]>>]
    \o [i \in DOMAIN BiomarkerRecords |->
            <<"medical_biomarker_agent", "medical_alert",
              [biomarkers |-> BiomarkerRecords[i]]>>]

InitAgents == Init /\ llm = FALSE

\* send_message(A2AMessage(sender="orchestrator", recipient=agent_id, ...)): the
\* response is what the agent's process_message returned
AgentSend(agent_id, message_type, content, env) ==
    /\ calls < MaxAgentCalls
    /\ calls' = calls + 1
    /\ Done("send_message", <<agent_id, message_type, content>>,
            Dispatch(Ctx, "orchestrator", agent_id, message_type, content, env))
    /\ UNCHANGED <<state, conversation_flows, llm, now>>

NextAgents ==
    \/ \E a \in DOMAIN AllAgentIds, t \in DOMAIN MessageType, e \in DOMAIN Envs :
            AgentSend(AllAgentIds[a], MessageType[t], EmptyDict, Envs[e])
    \/ \E i \in DOMAIN AgentRequests, e \in DOMAIN Envs :
            AgentSend(AgentRequests[i][1], AgentRequests[i][2], AgentRequests[i][3], Envs[e])

SpecAgents == InitAgents /\ [][NextAgents]_vars

-----------------------------------------------------------------------------
(* Properties of the agents, under SpecAgents *)

\* the message type each agent is documented to act on
ActiveType ==
    [preference_agent |-> "preference_update", goal_agent |-> "goal_analysis",
     food_knowledge_agent |-> "food_suggestion", restriction_safety_agent |-> "safety_check",
     adaptation_agent |-> "adaptation_request",
     motivation_education_agent |-> "motivation_message",
     cultural_lifestyle_agent |-> "cultural_adaptation",
     budget_accessibility_agent |-> "budget_check", meal_timing_agent |-> "timing_suggestion",
     sustainability_agent |-> "sustainability_check",
     medical_biomarker_agent |-> "medical_alert",
     feedback_learning_agent |-> "feedback_processing",
     emergency_risk_agent |-> "emergency_alert", meal_analysis_agent |-> "meal_analysis",
     daily_nutrition_analysis_agent |-> "daily_nutrition_analysis",
     progress_analysis_agent |-> "progress_analysis", cost_analysis_agent |-> "cost_analysis",
     sustainability_analysis_agent |-> "sustainability_check"]

Acknowledgement(agent_id) == [status |-> "processed", agent |-> agent_id]

\* C9: for each of the eighteen agents and each message type other than the
\* agent's active type, process_message returns exactly
\* {status: 'processed', agent: <id>} and changes nothing the agent keeps.
C9_OneActiveType ==
    [][(Asked("send_message") /\ outcome'.args[2] # ActiveType[outcome'.args[1]])
          => /\ outcome'.exc = "none"
             /\ outcome'.value.content = Acknowledgement(outcome'.args[1])
             /\ memory' = memory]_vars

\* C9 as the code has it: the thirteen agents that test the message type
\* acknowledge every type other than their active one, REQUEST excepted for the
\* preference agent, which answers it with the stored preferences; the five
\* analysis agents test no type and answer every message with their analysis.
C9_TypeCheckingAgentsAcknowledge ==
    [][Asked("send_message")
          => /\ (/\ outcome'.args[1] \notin AnalysisAgentIds
                 /\ outcome'.args[2] # ActiveType[outcome'.args[1]]
                 /\ ~(outcome'.args[1] = "preference_agent" /\ outcome'.args[2] = "request"))
                   => /\ outcome'.exc = "none"
                      /\ outcome'.value.content = Acknowledgement(outcome'.args[1])
                      /\ memory' = memory
             /\ (outcome'.args[1] = "preference_agent" /\ outcome'.args[2] = "request")
                   => /\ outcome'.exc = "none"
                      /\ DOMAIN outcome'.value.content = {"preferences"}
             /\ outcome'.args[1] \in AnalysisAgentIds
                   => /\ outcome'.exc = "none"
                      /\ "status" \notin DOMAIN outcome'.value.content]_vars

C9_Witness ==
    /\ outcome.op = "send_message"
    /\ outcome.args[1] = "goal_agent"
    /\ outcome.args[2] = "notification"
    /\ outcome.args[3] = [profile |-> PartialProfile]
    /\ outcome.value.content = Acknowledgement("goal_agent")

\* C10: no agent raises on a message of its active type, whatever keys the
\* content omits: the handler returns a response.
C10_MissingKeysNeverRaise ==
    [][(Asked("send_message") /\ outcome'.args[2] = ActiveType[outcome'.args[1]])
          => outcome'.exc = "none"]_vars

\* GOAL_ANALYSIS with an empty content: UserProfile(**{}) raises TypeError
C10_GoalAgentRaised ==
    /\ outcome.op = "send_message"
    /\ outcome.args = <<"goal_agent", "goal_analysis", EmptyDict>>
    /\ outcome.exc = "TypeError"


-----------------------------------------------------------------------------
(* Properties of recorded messages and of the agents' memory *)

\* a content as a reader sees it: the value under a key that holds
\* PreferenceAgent.user_profile itself is that dict as it is now
ContentShown(mem, content) ==
    [k \in DOMAIN content |->
        IF k \in {"profile", "preferences"} THEN Deref(mem, content[k]) ELSE content[k]]

\* C11: a recorded message is immutable: whatever is dispatched later, sender,
\* recipient, type and content of every entry of message_history stay what they
\* were when the entry was appended.
C11_RecordedMessagesImmutable ==
    [][\A i \in 1..Len(message_history) :
          /\ message_history'[i].sender = message_history[i].sender
          /\ message_history'[i].recipient = message_history[i].recipient
          /\ message_history'[i].message_type = message_history[i].message_type
          /\ ContentShown(memory', message_history'[i].content)
                = ContentShown(memory, message_history[i].content)]_vars

\* a response of the preference agent in message_history whose content shows a
\* profile other than the one of its request: a later update wrote into it
C11_RecordedResponseChanged ==
    \E i \in 1..Len(message_history) :
        /\ i % 2 = 0
        /\ message_history[i].sender = "preference_agent"
        /\ message_history[i - 1].message_type = "preference_update"
        /\ ContentShown(memory, message_history[i].content).profile
              # message_history[i - 1].content

\* what the recipient of a message answers when it has processed nothing before
FreshResponse(message) ==
    process_message(message.recipient, register_agent(EmptyOrchestrator, message.recipient).memory,
                    message, Envs[1])

\* C12: an agent's response content is a function of the request content alone:
\* it is what a newly constructed agent answers, whatever the agent processed
\* earlier.
C12_AgentsArePure ==
    [][(Called("send_message") /\ outcome'.exc = "none")
          => ContentShown(memory', outcome'.value.content)
                = ContentShown(FreshResponse(outcome'.args[1]).memory,
                               FreshResponse(outcome'.args[1]).content)]_vars

\* a preference update answered with keys an earlier request had submitted
C12_EarlierRequestShows ==
    /\ outcome.op = "send_message"
    /\ outcome.exc = "none"
    /\ outcome.args[1].recipient = "preference_agent"
    /\ outcome.args[1].message_type = "preference_update"
    /\ DOMAIN outcome.args[1].content = {"allergies"}
    /\ "profile" \in DOMAIN ContentShown(memory, outcome.value.content).profile


\* C13: after a run_flow that returned, state.plan has daily_meals and
\* total_calories, and state.analysis_results has daily.summary.avg_calories,
\* cost.average_cost_per_day and sustainability.average_kg_co2e_per_day,
\* beside the meal and progress maps.
C13_ExportKeys ==
    (outcome.op = "run_flow" /\ outcome.exc = "none")
        => /\ {"daily_meals", "total_calories"} \subseteq DOMAIN state.plan
           /\ DOMAIN state.analysis_results
                 = {"meal", "daily", "progress", "cost", "sustainability"}
           /\ "avg_calories" \in DOMAIN state.analysis_results.daily.summary
           /\ "average_cost_per_day" \in DOMAIN state.analysis_results.cost
           /\ "average_kg_co2e_per_day" \in DOMAIN state.analysis_results.sustainability

C13_Witness ==
    /\ outcome.op = "run_flow"
    /\ outcome.exc = "none"
    /\ DOMAIN state.plan.daily_meals = Range(DayKeys)
    /\ state.plan.total_calories > 0
    /\ state.analysis_results.daily.summary.avg_calories > 0


\* the ingredient names of a plan, over all days and meals
PlanIngredientNames(plan) == Range(run_flow_foods(plan))

\* C14: when the profile given to run_flow has 'vegetarian' among its
\* dietary_preferences, no meal of the resulting plan has chicken, salmon or
\* eggs as an ingredient, on a fresh orchestrator and after earlier runs.
C14_VegetarianRespected ==
    (/\ outcome.op = "run_flow"
     /\ outcome.exc = "none"
     /\ "vegetarian" \in Range(outcome.args[1].dietary_preferences))
        => PlanIngredientNames(state.plan) \cap {"chicken", "salmon", "eggs"} = {}

\* the plan of a vegetarian profile as run_flow leaves it: the food agent is
\* handed {"profile": <profile>} for preferences and finds no dietary_preferences
C14_MeatInVegetarianPlan ==
    /\ outcome.op = "run_flow"
    /\ outcome.exc = "none"
    /\ outcome.args[1] = VegetarianProfile
    /\ {"chicken", "salmon", "eggs"} \subseteq PlanIngredientNames(state.plan)
    /\ PlanIngredientNames(state.plan) \cap {"tofu", "lentils"} = {}


-----------------------------------------------------------------------------
(* Properties of single agents, under SpecAgents *)

\* the step is a message of its active type to agent_id
AskedAgent(agent_id) ==
    /\ Asked("send_message")
    /\ outcome'.args[1] = agent_id
    /\ outcome'.args[2] = ActiveType[agent_id]

C15_AlmondsPassed ==
    /\ outcome.op = "send_message"
    /\ outcome.args = <<"restriction_safety_agent", "safety_check", SafetyRequests[1]>>
    /\ outcome.value.content.safe = TRUE
    /\ Len(outcome.value.content.issues) = 0

\* what one food contributes to the sustainability score
FoodContribution(food) ==
    IF \E i \in 1..3 : Contains(<<"beef", "lamb", "cheese">>[i], Lower(food)) THEN -3
    ELSE IF \E i \in 1..3 : Contains(<<"chicken", "pork", "eggs">>[i], Lower(food)) THEN -1
    ELSE IF \E i \in 1..4 :
                Contains(<<"tofu", "lentils", "vegetables", "fruits">>[i], Lower(food)) THEN 2
    ELSE 0

\* C16: the sustainability score of a food list is the sum of one contribution
\* per food: -3 for a high-carbon name, else -1 for a medium-carbon name, else
\* +2 for a low-carbon name, else 0, in every month; ['beef', 'lentils'] scores -1.
C16_ScoreIsSumOfContributions ==
    [][(AskedAgent("sustainability_agent") /\ "foods" \in DOMAIN outcome'.args[3])
          => /\ outcome'.value.content.sustainability_score
                   = SumSeq([i \in DOMAIN outcome'.args[3].foods |->
                                FoodContribution(outcome'.args[3].foods[i])])
             /\ outcome'.args[3].foods = <<"beef", "lentils">>
                   => outcome'.value.content.sustainability_score = -1]_vars

\* berries out of season: a suggestion, and the score unchanged
C16_Witness ==
    /\ outcome.op = "send_message"
    /\ outcome.args = <<"sustainability_agent", "sustainability_check",
                        [foods |-> <<"berries">>]>>
    /\ Len(outcome.value.content.suggestions) = 1
    /\ outcome.value.content.sustainability_score = 0

\* a measurement that is a number, or a text that float() accepts, and its value
Numeric(v) == "num" \in DOMAIN v \/ ParseFloat(v.text).exc = "none"

Reading(v) == IF "num" \in DOMAIN v THEN v.num ELSE ParseFloat(v.text).value

Measured(data, key) == key \in DOMAIN data /\ Numeric(data[key])

\* C17: the emergency agent's thresholds are strict: weight_loss_rate > 2.0 is an
\* emergency and no risk, 1.0 < rate <= 2.0 a risk only, rate <= 1.0 nothing;
\* BMI < 18.5 or > 30 is a risk; blood pressure > 140 or < 90 is a risk; fatigue
\* 'extreme' or 'severe' is an emergency; requires_medical_attention is true
\* exactly when there is an emergency.
C17_StrictThresholds ==
    [][(AskedAgent("emergency_risk_agent") /\ "health_data" \in DOMAIN outcome'.args[3])
          => LET data == outcome'.args[3].health_data
                 emergencies == Range(outcome'.value.content.emergencies)
                 risks == Range(outcome'.value.content.risks)
                 Over(key, limit) == Measured(data, key) /\ Reading(data[key]) > limit
                 Under(key, limit) == Measured(data, key) /\ Reading(data[key]) < limit
             IN  /\ "DANGEROUS WEIGHT LOSS - Consult healthcare provider immediately"
                        \in emergencies <=> Over("weight_loss_rate", Float(2))
                 /\ "Rapid weight loss detected - consider slowing down" \in risks
                        <=> (Over("weight_loss_rate", Float(1))
                               /\ ~Over("weight_loss_rate", Float(2)))
                 /\ "Underweight BMI - consider increasing caloric intake" \in risks
                        <=> Under("bmi", Float(185) \div 10)
                 /\ "High BMI - consider medical supervision for weight loss" \in risks
                        <=> Over("bmi", Float(30))
                 /\ "High blood pressure - monitor closely" \in risks
                        <=> Over("blood_pressure", Float(140))
                 /\ "Low blood pressure - consider medical evaluation" \in risks
                        <=> Under("blood_pressure", Float(90))
                 /\ "EXTREME FATIGUE - May indicate underlying health issue" \in emergencies
                        <=> ("fatigue_level" \in DOMAIN data
                               /\ data.fatigue_level \in {"extreme", "severe"})
                 /\ outcome'.value.content.requires_medical_attention
                        <=> emergencies # {}]_vars

\* a rate of exactly 2.0: a risk and no emergency
C17_Witness ==
    /\ outcome.op = "send_message"
    /\ outcome.args[1] = "emergency_risk_agent"
    /\ outcome.args[2] = "emergency_alert"
    /\ Get(outcome.args[3], "health_data", EmptyDict) = [weight_loss_rate |-> Tenths(20)]
    /\ Len(outcome.value.content.risks) = 1
    /\ ~outcome.value.content.requires_medical_attention

\* the keys whose values the two agents compare with thresholds
ThresholdKeys ==
    {"weight_loss_rate", "bmi", "blood_pressure", "blood_sugar", "cholesterol", "vitamin_d"}

\* data without the threshold-checked keys whose value is no number
WithoutMalformed(data) ==
    [k \in {key \in DOMAIN data : key \in ThresholdKeys => Numeric(data[key])} |-> data[k]]

\* C18: a non-numeric value under a threshold-checked key is skipped: the agent
\* raises nothing and answers as it answers the same request without that key.
C18_MalformedSkipped ==
    [][(/\ Asked("send_message")
        /\ outcome'.args[1] \in {"emergency_risk_agent", "medical_biomarker_agent"}
        /\ outcome'.args[2] = ActiveType[outcome'.args[1]])
          => LET key == IF outcome'.args[1] = "emergency_risk_agent" THEN "health_data"
                        ELSE "biomarkers"
                 data == Get(outcome'.args[3], key, EmptyDict)
                 request == [Sent[1] EXCEPT
                                !.content = (key :> WithoutMalformed(data)) @@ @]
             IN  /\ outcome'.exc = "none"
                 /\ outcome'.value.content
                       = process_message(outcome'.args[1], memory, request, Envs[1]).content]_vars

C18_Witness ==
    /\ outcome.op = "send_message"
    /\ outcome.exc = "none"
    /\ outcome.args[1] = "emergency_risk_agent"
    /\ outcome.args[2] = "emergency_alert"
    /\ Get(outcome.args[3], "health_data", EmptyDict) = HealthRecords[23]
    /\ outcome.value.content.risks
          = <<"High BMI - consider medical supervision for weight loss">>
    /\ Len(outcome.value.content.emergencies) = 1

\* the price of a food by the tier the substitution rule puts it in: a name that
\* contains an expensive keyword is expensive
TierPrice(food) ==
    IF \E i \in 1..4 : Contains(<<"quinoa", "salmon", "almonds", "avocado">>[i], Lower(food))
    THEN 15
    ELSE IF \E i \in 1..4 :
                Contains(<<"brown rice", "chicken", "lentils", "banana">>[i], Lower(food))
    THEN 8
    ELSE 3

\* C19: estimated_cost is the sum over the foods of $15 for an expensive food, $8
\* for an affordable one and $3 otherwise, the tier being the one the
\* substitution rule uses; budget_friendly is true exactly when the sum is <= 20.
C19_ThreeTierCost ==
    [][(AskedAgent("budget_accessibility_agent") /\ "foods" \in DOMAIN outcome'.args[3])
          => /\ outcome'.value.content.estimated_cost
                   = SumSeq([i \in DOMAIN outcome'.args[3].foods |->
                                TierPrice(outcome'.args[3].foods[i])])
             /\ outcome'.value.content.budget_friendly
                   <=> outcome'.value.content.estimated_cost <= 20]_vars

\* 'grilled salmon' is replaced as an expensive food and priced as a default one
C19_GrilledSalmonCheap ==
    /\ outcome.op = "send_message"
    /\ outcome.args = <<"budget_accessibility_agent", "budget_check",
                        [budget_level |-> "low", foods |-> <<"grilled salmon">>]>>
    /\ outcome.value.content.substitutions = [f \in {"grilled salmon"} |-> "chicken"]
    /\ outcome.value.content.estimated_cost = 3


-----------------------------------------------------------------------------
(* SpecCalc: the functions of utils/calculations.py, each applied to         *)
(* arguments drawn in the initial state                                      *)

\* basal rates, with two decimals at most
BmrInputs ==
    <<Float(0), Float(1000), Float(1200), Float(1350), Float(1500), Float(167375) \div 100,
      Float(1800), Float(2000), Float(130875) \div 100, Float(2500)>>

ActivityLevels ==
    <<"sedentary", "Sedentary", "lightly active", "LIGHTLY ACTIVE", "moderately active",
      "Moderately Active", "very active", "Very active", "extremely active",
      "Extremely Active", "very active ", "active", "moderate", "">>

CalcInputs ==
    {[bmr |-> BmrInputs[b], activity_level |-> ActivityLevels[a]] :
        b \in DOMAIN BmrInputs, a \in DOMAIN ActivityLevels}

\* weight_kg, height_cm, age, gender
BmrArgs ==
    {[weight_kg |-> w, height_cm |-> h, age |-> a, gender |-> g] :
        w \in {55, 70, 90}, h \in {160, 175}, a \in {30, 60},
        g \in {"male", "Male", "MALE", "m", "M", "female", "man", "male ", ""}}

\* the arguments of plan_energy_and_macros
MacroArgs ==
    {[weight_kg |-> w, height_cm |-> 175, age |-> 30, gender |-> g,
      activity_level |-> l, goal_type |-> t] :
        w \in {70, 90}, g \in {"male", "female"},
        l \in {"sedentary", "moderately active", "Very Active"},
        t \in {"weight_loss", "muscle_gain", "maintenance", "Weight_Loss"}}

\* name and amount of an ingredient
IngredientArgs ==
    {[name |-> n, amount |-> a] :
        n \in {"chicken", "rice", "Grilled Salmon", "chicken rice", "tofu", "oats", "beef"},
        a \in {"150g", "2kg", "1 cup", "2 large", "1 medium", " 150 g ", "abcg", "1 tbsp",
               "1.5g", "0.5kg", "100 g", ""}}

\* no orchestrator takes part; the arguments of the call are drawn here
InitCalc ==
    /\ agents = EmptyOrchestrator.agents
    /\ message_queue = EmptyOrchestrator.message_queue
    /\ conversation_history = EmptyOrchestrator.conversation_history
    /\ memory = EmptyOrchestrator.memory
    /\ message_history = EmptyOrchestrator.message_history
    /\ next_id = EmptyOrchestrator.next_id
    /\ state = SystemState(EmptyDict)
    /\ conversation_flows = <<>>
    /\ llm = FALSE
    /\ now = 0
    /\ calls = 0
    /\ \/ \E input \in CalcInputs : outcome = Outcome("input", input, "none", <<>>, EmptyDict)
       \/ \E input \in BmrArgs : outcome = Outcome("input", input, "none", <<>>, EmptyDict)
       \/ \E input \in MacroArgs : outcome = Outcome("input", input, "none", <<>>, EmptyDict)
       \/ \E input \in IngredientArgs :
             outcome = Outcome("input", input, "none", <<>>, EmptyDict)

\* the drawn arguments are those of a function with these parameters
Drawn(parameters) == outcome.op = "input" /\ DOMAIN outcome.args = parameters

\* the call of a function on the drawn arguments
Applied(function, value) ==
    /\ outcome' = Outcome(function, outcome.args, "none", <<>>, value)
    /\ UNCHANGED <<agents, message_queue, conversation_history, memory, message_history,
                   next_id, state, conversation_flows, llm, now, calls>>

CalculateTdee ==
    /\ Drawn({"bmr", "activity_level"})
    /\ Applied("calculate_tdee", calculate_tdee(outcome.args.bmr, outcome.args.activity_level))

CalculateBmrMifflin ==
    /\ Drawn({"weight_kg", "height_cm", "age", "gender"})
    /\ Applied("calculate_bmr_mifflin",
               calculate_bmr_mifflin(outcome.args.weight_kg, outcome.args.height_cm,
                                     outcome.args.age, outcome.args.gender))

PlanEnergyAndMacros ==
    /\ Drawn({"weight_kg", "height_cm", "age", "gender", "activity_level", "goal_type"})
    /\ Applied("plan_energy_and_macros",
               plan_energy_and_macros(outcome.args.weight_kg, outcome.args.height_cm,
                                      outcome.args.age, outcome.args.gender,
                                      outcome.args.activity_level, outcome.args.goal_type))

EstimateItemCost ==
    /\ Drawn({"name", "amount"})
    /\ Applied("estimate_item_cost", estimate_item_cost(outcome.args.name, outcome.args.amount))

EstimateCo2e ==
    /\ Drawn({"name", "amount"})
    /\ Applied("estimate_co2e", estimate_co2e(outcome.args.name, outcome.args.amount))

NextCalc ==
    \/ CalculateTdee
    \/ CalculateBmrMifflin
    \/ PlanEnergyAndMacros
    \/ EstimateItemCost
    \/ EstimateCo2e

SpecCalc == InitCalc /\ [][NextCalc]_vars

-----------------------------------------------------------------------------
(* Properties of the calculations, under SpecCalc *)

\* the multiplier of a level, in thousandths
LevelMultiplier(level) ==
    CASE Lower(level) = "sedentary" -> 1200
      [] Lower(level) = "lightly active" -> 1375
      [] Lower(level) = "moderately active" -> 1550
      [] Lower(level) = "very active" -> 1725
      [] Lower(level) = "extremely active" -> 1900
      [] OTHER -> 1200

\* C20: calculate_tdee(bmr, level) is bmr times the multiplier of the level
\* (1.2, 1.375, 1.55, 1.725, 1.9), the level matched in any letter case, and
\* bmr * 1.2 for a level outside the table.
C20_TdeeIsBmrTimesMultiplier ==
    outcome.op = "calculate_tdee"
        => outcome.value
              = ((outcome.args.bmr \div 100) * LevelMultiplier(outcome.args.activity_level))
                    \div 10

\* 1673.75 at 'Moderately Active' is 2594.3125
C20_Witness ==
    /\ outcome.op = "calculate_tdee"
    /\ outcome.args = [bmr |-> 16737500, activity_level |-> "Moderately Active"]
    /\ outcome.value = 25943125


\* C21, as stated: calculate_bmr_mifflin is 10*weight + 6.25*height - 5*age, plus 5
\* when the gender is 'male' or 'm' in any letter case and minus 161 otherwise; for
\* weight 70, height 175, age 30, gender 'male' it is 1673.75.
C21_BmrWithStatedExample ==
    outcome.op = "calculate_bmr_mifflin"
        => /\ outcome.value
                 = 100000 * outcome.args.weight_kg + 62500 * outcome.args.height_cm
                      - 50000 * outcome.args.age
                      + (IF Lower(outcome.args.gender) = "male" \/ Lower(outcome.args.gender) = "m"
                         THEN 50000 ELSE 0 - 1610000)
           /\ outcome.args = [weight_kg |-> 70, height_cm |-> 175, age |-> 30, gender |-> "male"]
                 => outcome.value = 16737500

\* C21, amended: the same formula and offsets; for weight 70, height 175, age 30,
\* gender 'male' the result is 1648.75.
C21_BmrFormula ==
    outcome.op = "calculate_bmr_mifflin"
        => /\ outcome.value
                 = 100000 * outcome.args.weight_kg + 62500 * outcome.args.height_cm
                      - 50000 * outcome.args.age
                      + (IF Lower(outcome.args.gender) = "male" \/ Lower(outcome.args.gender) = "m"
                         THEN 50000 ELSE 0 - 1610000)
           /\ outcome.args = [weight_kg |-> 70, height_cm |-> 175, age |-> 30, gender |-> "male"]
                 => outcome.value = 16487500

\* 'MALE' takes the male offset
C21_Witness ==
    /\ outcome.op = "calculate_bmr_mifflin"
    /\ outcome.args = [weight_kg |-> 70, height_cm |-> 175, age |-> 30, gender |-> "MALE"]
    /\ outcome.value = 16487500

\* the profile of the example
ExampleMacroArgs ==
    [weight_kg |-> 70, height_cm |-> 175, age |-> 30, gender |-> "male",
     activity_level |-> "moderately active", goal_type |-> "weight_loss"]

\* x is y to the given tolerance
About(x, y, tolerance) == x - y <= tolerance /\ y - x <= tolerance

\* carbs_g is what remains of the target after protein and fat, divided by 4
CarbsAreTheRemainder(plan) ==
    plan.carbs_g = (plan.target_calories - 4 * plan.protein_g - 9 * plan.fats_g) \div 4

\* C22, as stated: for the example profile plan_energy_and_macros returns TDEE
\* 2594.3125, target calories 2094.3125, protein_g 140.0, fats_g about 58.17 and
\* carbs_g about 249.7, carbs being the remaining calories divided by 4.
C22_MacrosAsStated ==
    outcome.op = "plan_energy_and_macros"
        => /\ CarbsAreTheRemainder(outcome.value)
           /\ outcome.args = ExampleMacroArgs
                 => /\ outcome.value.tdee = 25943125
                    /\ outcome.value.target_calories = 20943125
                    /\ outcome.value.protein_g = 1400000
                    /\ About(outcome.value.fats_g, 581700, 100)
                    /\ About(outcome.value.carbs_g, 2497000, 1000)

\* C22, amended: for the example profile plan_energy_and_macros returns TDEE
\* 2555.5625, target calories 2055.5625 (TDEE - 500), protein_g 140.0, fats_g
\* about 57.10 and carbs_g about 245.42, carbs being the remaining calories
\* divided by 4.
C22_MacrosAsComputed ==
    outcome.op = "plan_energy_and_macros"
        => /\ CarbsAreTheRemainder(outcome.value)
           /\ outcome.args = ExampleMacroArgs
                 => /\ outcome.value.tdee = 25555625
                    /\ outcome.value.target_calories = outcome.value.tdee - Float(500)
                    /\ outcome.value.protein_g = 1400000
                    /\ About(outcome.value.fats_g, 571000, 100)
                    /\ About(outcome.value.carbs_g, 2454200, 100)

C22_Witness ==
    /\ outcome.op = "plan_energy_and_macros"
    /\ outcome.args = ExampleMacroArgs
    /\ outcome.value.bmr = 16487500
    /\ outcome.value.target_calories = 20555625

\* s ends with the suffix
EndsWith(s, suffix) ==
    Len(s) >= Len(suffix) /\ SubSeq(s, Len(s) - Len(suffix) + 1, Len(s)) = suffix

\* the mass an amount states, by its suffix
StatedMass(amount, default, cup) ==
    IF EndsWith(Strip(amount), "kg")
    THEN ValueOr([ParseFloat(SubSeq(Strip(amount), 1, Len(Strip(amount)) - 2))
                     EXCEPT !.value = @ * 1000], default)
    ELSE IF EndsWith(Strip(amount), "g")
    THEN ValueOr(ParseFloat(SubSeq(Strip(amount), 1, Len(Strip(amount)) - 1)), default)
    ELSE IF Contains("cup", amount) THEN cup
    ELSE default

\* C23: the estimators take '<n>g' as n grams, '<n>kg' as n*1000 grams, a cup as
\* 100 g for cost, any other amount and an unparsable number as the default
\* mass (50 g for cost, 100 g for CO2e); the estimate is the mass times the rate
\* of the first table keyword in the food name, or the default rate.
C23_MassBySuffix ==
    /\ outcome.op = "estimate_item_cost"
          => outcome.value
                = ((StatedMass(outcome.args.amount, Float(50), Float(100)) \div 100)
                      * FirstMatch(PRICE_TABLE, Lower(outcome.args.name), 30)) \div 100
    /\ outcome.op = "estimate_co2e"
          => outcome.value
                = ((StatedMass(outcome.args.amount, Float(100), Float(100)) \div 1000)
                      * FirstMatch(FOOTPRINT, Lower(outcome.args.name), 12)) \div 10

\* '2kg' of rice costs what the default 50 g cost
C23_KilogramsTakenAsDefault ==
    /\ outcome.op = "estimate_item_cost"
    /\ outcome.args = [name |-> "rice", amount |-> "2kg"]
    /\ outcome.value = 750


-----------------------------------------------------------------------------
(* SpecGraph: streamlit_app.py run_flow, the page that runs the flow on the  *)
(* SystemState of the session, through the LangGraph pipeline when langgraph *)
(* can be imported and through A2ADietitianOrchestrator.run_flow otherwise   *)

MaxRuns == 3

AllergicProfile == [CompleteProfile EXCEPT !.allergies = <<"almonds">>]

\* the profiles the profile form stores in the session state before a run
SessionProfiles == <<CompleteProfile, VegetarianProfile, PartialProfile, AllergicProfile>>

\* system.run_flow(state): the branch taken when langgraph is missing, which is
\* so for the whole session; the state object is what the stages left of it
SessionRunFlow(profile, env) ==
    /\ calls < MaxRuns
    /\ outcome.op # "invoke"
    /\ calls' = calls + 1
    /\ RunFlowDone(run_flow(Ctx, [state EXCEPT !.profile = profile], env), profile)
    /\ UNCHANGED <<conversation_flows, llm, now>>

\* app.invoke(state) of the compiled graph. When a node raises, the session keeps
\* the state as the nodes left it, or as it was handed in when the library runs
\* the nodes on a copy
GraphDone(r, st, profile) ==
    /\ Leave(r.ctx)
    /\ state' \in (IF r.exc = "none" THEN {r.value} ELSE {r.value, st})
    /\ outcome' = Outcome("invoke", <<profile>>, r.exc, r.text,
                          IF r.exc = "none" THEN r.value ELSE EmptyDict)

SessionInvokeGraph(profile, env) ==
    /\ calls < MaxRuns
    /\ outcome.op # "run_flow"
    /\ calls' = calls + 1
    /\ GraphDone(graph_invoke(Ctx, [state EXCEPT !.profile = profile], env),
                 [state EXCEPT !.profile = profile], profile)
    /\ UNCHANGED <<conversation_flows, llm, now>>

NextGraph ==
    \/ \E p \in DOMAIN SessionProfiles : SessionRunFlow(SessionProfiles[p], PipelineEnv)
    \/ \E p \in DOMAIN SessionProfiles : SessionInvokeGraph(SessionProfiles[p], PipelineEnv)

SpecGraph == InitAgents /\ [][NextGraph]_vars

-----------------------------------------------------------------------------
(* Properties of the two ways to run the flow, under SpecGraph *)

\* the topics of the events of a state
Topics(st) == [i \in DOMAIN st.events |-> st.events[i].topic]

\* C24: from the same orchestrator state and the same SystemState, the graph and
\* run_flow end with equal plan, goals, safety_flags and analysis_results and the
\* same sequence of event topics, on a first run and on a later one.
C24_GraphEqualsRunFlow ==
    [][Asked("invoke")
          => LET r == run_flow(Ctx, [state EXCEPT !.profile = outcome'.args[1]], PipelineEnv)
             IN  /\ r.exc = outcome'.exc
                 /\ r.exc = "none"
                       => /\ r.value.plan = state'.plan
                          /\ r.value.goals = state'.goals
                          /\ r.value.safety_flags = state'.safety_flags
                          /\ r.value.analysis_results = state'.analysis_results
                          /\ Topics(r.value) = Topics(state')]_vars

\* the first run of the graph for a vegetarian profile: tofu and no chicken,
\* where run_flow plans chicken
C24_GraphPlansTofu ==
    /\ outcome.op = "invoke"
    /\ outcome.exc = "none"
    /\ calls = 1
    /\ outcome.args[1] = VegetarianProfile
    /\ "tofu" \in PlanIngredientNames(state.plan)
    /\ "chicken" \notin PlanIngredientNames(state.plan)

\* a later run of the graph: the daily analysis is that of the plan of the first
\* run, which the plan of this run differs from
C24_GraphKeepsFirstAnalysis ==
    /\ outcome.op = "invoke"
    /\ outcome.exc = "none"
    /\ calls = 2
    /\ state.analysis_results.daily
          # DailyNutritionAnalysisAgent_process_message(
                NoMemory, A2AMessage(0, "a", "b", "daily_nutrition_analysis", state.plan)).content


-----------------------------------------------------------------------------
(* Properties of the histories, under SpecProto *)

\* the requests the registered agents hold in their conversation histories, less
\* the requests that message_history holds
HistoryExcess(ag, ch, mh) == SumSeq([i \in DOMAIN ag |-> Len(ch[ag[i]])]) - Len(mh) \div 2

\* the step is a call in which the handler of a registered agent raised
HandlerFailed ==
    /\ outcome'.exc # "none"
    /\ Called("send_message") => outcome'.args[1].recipient \in Range(agents)

-----------------------------------------------------------------------------
(* Properties of the queues and of the dashboard queries, under Spec *)

\* C26: no operation of the orchestrator drains a queue: in every state an
\* agent's pending messages are as many as its conversation history holds and
\* never fewer than before; get_agent_insights reports 'Active' for an agent that
\* has received a message and 'Ready' for one that has received none, and
\* neither it nor get_agent_status changes the orchestrator or its agents.
C26_QueuesNeverDrained ==
    [][/\ \A a \in Range(agents') :
            /\ Len(message_queue'[a]) = Len(conversation_history'[a])
            /\ Len(message_queue'[a]) >= Len(message_queue[a])
       /\ Asked("get_agent_insights")
             => /\ DOMAIN outcome'.value = Range(agents)
                /\ \A a \in Range(agents) :
                      /\ outcome'.value[a].status
                            = (IF Len(conversation_history[a]) > 0 THEN "Active" ELSE "Ready")
                      /\ outcome'.value[a].insights.pending_messages
                            = Len(conversation_history[a])
                /\ UNCHANGED <<agents, message_queue, conversation_history, memory,
                               message_history, state, conversation_flows>>
       /\ Asked("get_agent_status")
             => /\ \A a \in Range(agents) :
                      outcome'.value[a].pending_messages = Len(message_queue[a])
                /\ UNCHANGED <<agents, message_queue, conversation_history, memory,
                               message_history, state, conversation_flows>>]_vars

\* the insights after a run of the flow: the agents of the flow are 'Active', the
\* others 'Ready'
C26_Witness ==
    /\ outcome.op = "get_agent_insights"
    /\ outcome.value["preference_agent"].status = "Active"
    /\ outcome.value["emergency_risk_agent"].status = "Active"
    /\ outcome.value["motivation_education_agent"].status = "Ready"
    /\ Len(message_queue["preference_agent"]) = 1


\* the recipients of the thirteen steps of create_comprehensive_plan
PlanRecipients ==
    <<"preference_agent", "goal_agent", "food_knowledge_agent", "restriction_safety_agent",
      "cultural_lifestyle_agent", "budget_accessibility_agent", "meal_timing_agent",
      "sustainability_agent", "medical_biomarker_agent", "emergency_risk_agent",
      "feedback_learning_agent", "adaptation_agent", "motivation_education_agent">>

\* the text of the routing error of send_message starts with these words
RoutingError(text) == Len(text) > 0 /\ text[1] = "Recipient agent "

\* C27: the orchestrator holds 18 agents under 18 distinct ids, every recipient of
\* run_flow and of create_comprehensive_plan is one of them, and neither pipeline
\* ends with the recipient-not-found error.
C27_AllRecipientsRegistered ==
    /\ Len(agents) = 18
    /\ Cardinality(Range(agents)) = 18
    /\ Range(RunFlowRecipients) \cup Range(PlanRecipients) \subseteq Range(agents)
    /\ \A i \in DOMAIN message_history : message_history[i].recipient \in
          Range(agents) \cup {"orchestrator"}
    /\ outcome.op = "run_flow" => ~RoutingError(outcome.text)
    /\ (outcome.op = "create_comprehensive_plan" /\ outcome.value.status = "error")
          => ~RoutingError(outcome.value.error)

\* a run of the flow that reached its eleven recipients
C27_Witness ==
    /\ outcome.op = "run_flow"
    /\ outcome.exc = "none"
    /\ Cardinality(Range(agents)) = 18
    /\ {message_history[i].recipient : i \in DOMAIN message_history} \ {"orchestrator"}
          = Range(RunFlowRecipients)


\* the request of the i-th stage of the run_flow that message_history ends with
StageRequest(i) == message_history[Len(message_history) - 2 * Len(RunFlowStages) + 2 * i - 1]

\* C28: run_flow gives the progress analysis the plan's total_calories, the sum
\* over the seven days, as the target of each day; a completed run_flow reports
\* avg_calorie_delta = -6/7 of total_calories and the trend 'likely_weight_loss',
\* whatever the profile and its goal_type.
C28_AlwaysWeightLoss ==
    (outcome.op = "run_flow" /\ outcome.exc = "none")
        => LET progress == state.analysis_results.progress
               total == state.plan.total_calories
           IN  /\ StageRequest(7).recipient = "progress_analysis_agent"
               /\ StageRequest(7).content.total_calories = total
               /\ Cardinality(DOMAIN state.plan.daily_meals) = 7
               /\ 7 * progress.avg_calorie_delta <= 0 - 6 * total
               /\ 0 - 6 * total < 7 * progress.avg_calorie_delta + 7
               /\ progress.trend = "likely_weight_loss"

\* a run for the goal 'muscle_gain' that reports a weight loss
C28_Witness ==
    /\ outcome.op = "run_flow"
    /\ outcome.exc = "none"
    /\ outcome.args[1].goal_type = "muscle_gain"
    /\ state.plan.total_calories > Float(10000)
    /\ state.analysis_results.progress.trend = "likely_weight_loss"


\* the response to the i-th stage of the run_flow that message_history ends with
StageResponse(i) == message_history[Len(message_history) - 2 * Len(RunFlowStages) + 2 * i]

\* C29: after run_flow, safety_flags is the list of warnings of the safety
\* response; its allergy issues are in no flag, and with safe = false the plan
\* stays as the food agent returned it, the adaptation request carries the flags
\* only and the stages up to the emergency check run; for the allergy 'almonds'
\* the run completes with almonds in the plan and no safety flag.
C29_FlagsAreWarningsOnly ==
    (outcome.op = "run_flow" /\ outcome.exc = "none")
        => LET safety == StageResponse(4).content
           IN  /\ StageResponse(4).sender = "restriction_safety_agent"
               /\ state.safety_flags = safety.warnings
               /\ Range(safety.issues) \cap Range(state.safety_flags) = {}
               /\ state.plan = StageResponse(3).content
               /\ StageRequest(10).content.safety = state.safety_flags
               /\ Last(state.events).topic = "emergency"
               /\ outcome.args[1].allergies = <<"almonds">>
                     => /\ "almonds" \in PlanIngredientNames(state.plan)
                        /\ safety.safe = FALSE
                        /\ state.safety_flags = <<>>

\* the run for the allergy 'almonds': issues in the safety event, none flagged
C29_Witness ==
    /\ outcome.op = "run_flow"
    /\ outcome.exc = "none"
    /\ outcome.args[1] = AllergicProfile
    /\ Len(StageResponse(4).content.issues) > 0
    /\ StageResponse(4).content.safe = FALSE
    /\ state.safety_flags = <<>>
    /\ "almonds" \in PlanIngredientNames(state.plan)


-----------------------------------------------------------------------------
(* SpecFeedback: a sequence of FEEDBACK_PROCESSING requests of several users *)
(* to the feedback_learning_agent of one orchestrator                        *)

MaxFeedback == 5

\* the contents of the requests; one names no user_id
FeedbackRequests ==
    <<[user_id |-> "alice", feedback |-> [comment |-> "I skip lunch most days"]],
      [user_id |-> "alice",
       feedback |-> [comment |-> "Still HUNGRY, the same boring meals", weight_plateau |-> FALSE]],
      [user_id |-> "bob", feedback |-> [comment |-> "No lunch for me, hunger at night"]],
      [feedback |-> [comment |-> "I skip lunch"]]>>

ProcessFeedback(content, env) ==
    /\ calls < MaxFeedback
    /\ calls' = calls + 1
    /\ Done("send_message", <<"feedback_learning_agent", "feedback_processing", content>>,
            Dispatch(Ctx, "orchestrator", "feedback_learning_agent", "feedback_processing",
                     content, env))
    /\ UNCHANGED <<state, conversation_flows, llm, now>>

NextFeedback == \E i \in DOMAIN FeedbackRequests : ProcessFeedback(FeedbackRequests[i], PipelineEnv)

SpecFeedback == InitAgents /\ [][NextFeedback]_vars

-----------------------------------------------------------------------------
(* Properties of the feedback_learning_agent, under SpecFeedback *)

\* how many entries of a feedback history recorded for a user mention a phrase
Mentions(history, user_id, words) ==
    Cardinality({i \in DOMAIN history :
                    /\ history[i].user_id = user_id
                    /\ \E w \in DOMAIN words :
                          Contains(words[w], Lower(Get(history[i].feedback, "comment", "")))})

\* the users of the requests
FeedbackUsers == {"alice", "bob", "unknown"}

\* C30: the pattern counts returned for a user count the entries recorded with
\* that user_id, the current one included, and never decrease; the lunch
\* adaptation is suggested exactly above 3 mentions, the hunger and the boredom
\* adaptation exactly above 2; feedback of another user changes no count of the
\* user.
C30_FeedbackPerUser ==
    [][Asked("send_message")
          => LET user == Get(outcome'.args[3], "user_id", "unknown")
                 before == memory.feedback_learning_agent.feedback_history
                 after == memory'.feedback_learning_agent.feedback_history
                 patterns == outcome'.value.content.patterns
                 adaptations == Range(outcome'.value.content.adaptations)
                 lunch == Mentions(after, user, <<"skip lunch", "no lunch">>)
                 hunger == Mentions(after, user, <<"hungry", "hunger">>)
                 bored == Mentions(after, user, <<"boring", "same">>)
             IN  /\ after = Append(before, [user_id |-> user,
                                            feedback |-> outcome'.args[3].feedback])
                 /\ patterns.skips_lunch = lunch
                 /\ patterns.complains_hunger = hunger
                 /\ patterns.bored_with_meals = bored
                 /\ lunch >= Mentions(before, user, <<"skip lunch", "no lunch">>)
                 /\ "Shift calories to breakfast/dinner" \in adaptations <=> lunch > 3
                 /\ "Increase protein and fiber content" \in adaptations <=> hunger > 2
                 /\ "Introduce more variety and new cuisines" \in adaptations <=> bored > 2
                 /\ \A other \in FeedbackUsers \ {user} :
                       /\ Mentions(after, other, <<"skip lunch", "no lunch">>)
                             = Mentions(before, other, <<"skip lunch", "no lunch">>)
                       /\ Mentions(after, other, <<"hungry", "hunger">>)
                             = Mentions(before, other, <<"hungry", "hunger">>)
                       /\ Mentions(after, other, <<"boring", "same">>)
                             = Mentions(before, other, <<"boring", "same">>)]_vars

\* alice's fourth mention of a skipped lunch, after one of bob
C30_Witness ==
    /\ outcome.op = "send_message"
    /\ calls = 5
    /\ Get(outcome.args[3], "user_id", "unknown") = "alice"
    /\ outcome.value.content.patterns.skips_lunch = 4
    /\ outcome.value.content.adaptations = <<"Shift calories to breakfast/dinner">>
    /\ Mentions(memory.feedback_learning_agent.feedback_history, "bob",
                <<"skip lunch", "no lunch">>) = 1

====
